---------------------------- MODULE Spec2Model ----------------------------
(***************************************************************************)
(* A model of the pH controller: the remote configuration protocol         *)
(* (src/src/app.py, src/src/config/config_handler.py,                      *)
(* src/src/config/validation_handler.py), the control loop with its        *)
(* actuation workers (src/src/instruments/controllers.py) and the          *)
(* experiment lifecycle (src/src/instruments/experiment.py,                *)
(* src/src/utils/timer.py).                                                *)
(*                                                                         *)
(* Python dicts are functions from key strings to values, so that          *)
(* {**a, **b} (Merge) and dict.pop (Pop) act on the key sets as the code   *)
(* does.  Numbers with decimals are kept in hundredths: a pH of 6.5 is     *)
(* 650, a margin of 0.1 is 10, a pump time of 1.5 s is 150.                *)
(***************************************************************************)
EXTENDS Integers, Sequences, FiniteSets, TLC

VARIABLES
    config,      \* DeviceConfigHandler.config: the in-memory tree
    disk,        \* the tree last written by _save_config
    connected,   \* DeviceSocketClient.connected
    focus,       \* the part of the tree the command sender is editing
    handler,     \* "idle" | "done": a handler has run and not yet returned
    prev,        \* the in-memory tree when that handler was entered
    lastCmd,     \* the envelope that handler was called with
    result,      \* "none" | "ok" | "error": how that handler ended
    emitted      \* the events that handler emitted, in order

cfgVars == <<config, disk, connected, focus, handler, prev, lastCmd, result, emitted>>

VARIABLES
    controllers,   \* SensorManager.controllers: one PHController per location
    is_running,    \* SensorManager.is_running
    dataAquisitionInterval, \* SensorManager.dataAquisitionInterval, 0 while unset
    loop,          \* the run_controllers threads started so far
    decision,      \* what the last adjust_ph read, picked and started
    workers,       \* the change_pump_state threads started so far
    gpio_lock,     \* 0 when free, else the index of the worker holding it
    pins,          \* the level of every pump pin: 0 drives the pump, 1 is off
    chip,          \* "open" | "closed": the lgpio chip handle
    flags,         \* is_pumping_acid and is_pumping_base of every controller
    probe          \* the readings the pH probes give during this run

ctlVars ==
    <<controllers, is_running, dataAquisitionInterval, loop, decision, workers,
      gpio_lock, pins, chip, flags, probe>>

VARIABLES
    device_handler,  \* the configuration tree held by experiment.py's own handler
    experiment_data, \* ExperimentHandler.experiment_data
    timer,           \* IntervalTimer: [running, alive], alive the live threads
    phase,           \* what the supervisor has asked for: "ready" | "running" | "paused"
    command,         \* the last lifecycle command received and how it ended
    outbox,          \* the events the last emitting step produced
    backup_dir,      \* whether the directory of DataBackupHandler exists
    snapshots,       \* the files save_data has written into it
    connect_result   \* "none" | "returned" | "raised": how the last _handle_connect ended

expVars == <<device_handler, experiment_data, timer, phase, command, outbox, backup_dir,
            snapshots,
             connect_result>>

vars == <<cfgVars, ctlVars, expVars>>

----------------------------------------------------------------------------
(* Bounds of the model *)

\* most locations the command sender lets a configuration hold
MaxLocations == 1
\* most sensors the command sender lets the locations of a configuration hold
MaxSensors == 1
\* the control loop is followed up to this tick
MaxTicks == 1
\* most actuation workers the control loop starts in one run
MaxWorkers == 2
\* most run_controllers threads the lifecycle commands start in one run
MaxLoops == 2

----------------------------------------------------------------------------
(* Dicts and lists *)

Merge(a, b) ==
    [k \in (DOMAIN a) \cup (DOMAIN b) |-> IF k \in DOMAIN b THEN b[k] ELSE a[k]]

Pop(info, keys) == [k \in (DOMAIN info) \ keys |-> info[k]]

RemoveAt(s, i) == SubSeq(s, 1, i - 1) \o SubSeq(s, i + 1, Len(s))

RECURSIVE SumSeq(_)
SumSeq(s) == IF s = <<>> THEN 0 ELSE Head(s) + SumSeq(Tail(s))

\* int(x) on a number kept in hundredths: truncation toward zero
PyInt(x) == IF x >= 0 THEN (x \div 100) * 100 ELSE 0 - (((0 - x) \div 100) * 100)

----------------------------------------------------------------------------
(* config_handler.py: the forbidden keys *)

_forbidden_keys_info == {"id", "createdAt", "status", "configurations"}
_forbidden_keys_configuration_info == {"id", "createdAt", "locations"}
_forbidden_keys_location_info == {"id", "createdAt", "sensors"}
_forbidden_keys_sensor_info == {"id", "createdAt"}

\* the cap of add_device_configuration
MaxConfigurations == 3

\* parse_updated_info: every forbidden key present is popped
parse_updated_info_NoStrip(info, forbidden_keys) == info

parse_updated_info(info, forbidden_keys) == Pop(info, forbidden_keys)

----------------------------------------------------------------------------
(* validation_handler.py *)

required_fields == {"context", "operation", "data"}
context_values == {"device", "configuration", "location", "sensor"}
operations_values == {"read", "create", "update", "delete"}

\* A value that is not a str where the validator asks for one (an id sent as
\* a number); every other value of the model has the type its key asks for.
NonString == "<not a str>"

\* validateConfigOperationCommand: "" when it returns, the message when it raises
validateConfigOperationCommand(cmd) ==
    IF ~(required_fields \subseteq DOMAIN cmd)
        THEN "Missing required command field"
    ELSE IF cmd.context \notin context_values
        THEN "The operation context you provided is invalid."
    ELSE IF cmd.operation \notin operations_values
        THEN "The operation type you provided is invalid."
    ELSE ""

sensor_required_fields ==
    {"id", "mode", "margin", "maxValveTimeOpen", "targetPh", "probePort",
     "checkInterval", "createdAt"}

_validate_sensor_NoRange(sensor) ==
    /\ sensor_required_fields \subseteq DOMAIN sensor
    /\ sensor.id # NonString

_validate_sensor(sensor) ==
    /\ sensor_required_fields \subseteq DOMAIN sensor
    /\ sensor.id # NonString
    /\ sensor.mode \in {"acidic", "alkaline", "auto"}
    /\ 0 < sensor.margin /\ sensor.margin <= 100
    /\ 100 < sensor.maxValveTimeOpen /\ sensor.maxValveTimeOpen <= 30000
    /\ 100 <= sensor.targetPh /\ sensor.targetPh <= 1400

_validate_location(location) ==
    /\ {"id", "name", "createdAt", "sensors"} \subseteq DOMAIN location
    /\ \A k \in 1..Len(location.sensors) : _validate_sensor(location.sensors[k])

_validate_device_configuration(device_conf) ==
    /\ {"id", "name", "createdAt", "locations"} \subseteq DOMAIN device_conf
    /\ \A j \in 1..Len(device_conf.locations) :
           _validate_location(device_conf.locations[j])

----------------------------------------------------------------------------
(* config_handler.py: DeviceConfigHandler.  Each operation gives            *)
(* [tree |-> self.config when it ends, err |-> "" or the message raised];   *)
(* the in-place writes made before a raise are in tree, and _save_config    *)
(* has run exactly when err = "".                                          *)

Done(tree) == [tree |-> tree, err |-> ""]
Raised(tree, msg) == [tree |-> tree, err |-> msg]

update_device_info(cfg, info) ==
    Done(Merge(cfg, parse_updated_info(info, _forbidden_keys_info)))

add_device_configuration_NoCap(cfg, data) ==
    IF ~_validate_device_configuration(data)
        THEN Raised(cfg, "The configuration information submited does not contain the correct fields")
    ELSE Done([cfg EXCEPT !["configurations"] = Append(@, data)])

add_device_configuration(cfg, data) ==
    IF Len(cfg.configurations) = MaxConfigurations
        THEN Raised(cfg, "You reached the maximum number of configurations on this device")
    ELSE IF ~_validate_device_configuration(data)
        THEN Raised(cfg, "The configuration information submited does not contain the correct fields")
    ELSE Done([cfg EXCEPT !["configurations"] = Append(@, data)])

\* the loop of update_device_configuration_info from index i on: info is
\* popped in place on a match, so info["id"] raises KeyError on the next turn
RECURSIVE UpdateConfigurationLoop(_, _, _)
UpdateConfigurationLoop(confs, info, i) ==
    IF i > Len(confs) THEN [confs |-> confs, err |-> ""]
    ELSE IF "id" \notin DOMAIN info THEN [confs |-> confs, err |-> "KeyError: 'id'"]
    ELSE IF confs[i].id = info.id
        THEN LET parsedInfo == parse_updated_info(info, _forbidden_keys_configuration_info)
             IN  UpdateConfigurationLoop(
                     [confs EXCEPT ![i] = Merge(@, parsedInfo)], parsedInfo, i + 1)
    ELSE UpdateConfigurationLoop(confs, info, i + 1)

update_device_configuration_info(cfg, info) ==
    LET r == UpdateConfigurationLoop(cfg.configurations, info, 1)
    IN  [tree |-> [cfg EXCEPT !["configurations"] = r.confs], err |-> r.err]

\* a deletion that takes the records after the match with it
DeleteLoop_TakesTheRest(lst, id, i) ==
    IF \E k \in 1..Len(lst) : lst[k].id = id
    THEN SubSeq(lst, 1, (CHOOSE k \in 1..Len(lst) : lst[k].id = id /\ \A m \in 1..(k - 1) : lst[m].id # id) - 1)
    ELSE lst

\* "for i, x in enumerate(lst): if x["id"] == id: del lst[i]": the iterator
\* goes on at i + 1 after a deletion, so the element that follows is skipped
RECURSIVE DeleteLoop(_, _, _)
DeleteLoop(lst, id, i) ==
    IF i > Len(lst) THEN lst
    ELSE IF lst[i].id = id THEN DeleteLoop(RemoveAt(lst, i), id, i + 1)
    ELSE DeleteLoop(lst, id, i + 1)

\* the nested lookups: f is applied to every configuration whose id matches
OnConfigurations(cfg, configurationID, f(_)) ==
    [cfg EXCEPT !["configurations"] =
        [i \in 1..Len(@) |-> IF @[i].id = configurationID THEN f(@[i]) ELSE @[i]]]

OnLocations(cfg, configurationID, locationID, f(_)) ==
    LET g(conf) ==
            [conf EXCEPT !["locations"] =
                [j \in 1..Len(@) |-> IF @[j].id = locationID THEN f(@[j]) ELSE @[j]]]
    IN  OnConfigurations(cfg, configurationID, g)

delete_device_configuration(cfg, configurationID) ==
    Done([cfg EXCEPT !["configurations"] = DeleteLoop(@, configurationID, 1)])

add_location(cfg, data, configurationID) ==
    IF ~_validate_location(data)
        THEN Raised(cfg, "The location information submited does not contain the correct fields")
    ELSE LET f(conf) == [conf EXCEPT !["locations"] = Append(@, data)]
         IN  Done(OnConfigurations(cfg, configurationID, f))

update_location_info(cfg, data, configurationID, locationID) ==
    LET parsedInfo == parse_updated_info(data, _forbidden_keys_location_info)
        f(loc) == Merge(loc, parsedInfo)
    IN  Done(OnLocations(cfg, configurationID, locationID, f))

delete_location(cfg, device_configuration_id, locationID) ==
    LET f(conf) == [conf EXCEPT !["locations"] = DeleteLoop(@, locationID, 1)]
    IN  Done(OnConfigurations(cfg, device_configuration_id, f))

add_sensor(cfg, data0, configurationID, locationID) ==
    IF "targetPh" \notin DOMAIN data0 THEN Raised(cfg, "KeyError: 'targetPh'")
    ELSE LET data == [data0 EXCEPT !["targetPh"] = PyInt(@)]
             f(loc) == [loc EXCEPT !["sensors"] = Append(@, data)]
         IN  IF ~_validate_sensor(data)
                 THEN Raised(cfg, "The sensor information submited does not contain the correct fields")
             ELSE Done(OnLocations(cfg, configurationID, locationID, f))

update_sensor_info(cfg, data, configurationID, locationID, sensorID) ==
    IF ~_validate_sensor(data)
        THEN Raised(cfg, "The sensor information submited does not contain the correct fields")
    ELSE LET parsedInfo == parse_updated_info(data, _forbidden_keys_sensor_info)
             f(loc) ==
                 [loc EXCEPT !["sensors"] =
                     [k \in 1..Len(@) |->
                         IF @[k].id = sensorID THEN Merge(@[k], parsedInfo) ELSE @[k]]]
         IN  Done(OnLocations(cfg, configurationID, locationID, f))

delete_sensor_KeepsAll(cfg, device_configuration_id, locationID, sensorID) ==
    Done(cfg)

delete_sensor(cfg, device_configuration_id, locationID, sensorID) ==
    LET f(loc) == [loc EXCEPT !["sensors"] = DeleteLoop(@, sensorID, 1)]
    IN  Done(OnLocations(cfg, device_configuration_id, locationID, f))

----------------------------------------------------------------------------
(* app.py: DeviceSocketClient.apply_cmd and _handle_config_update *)

\* cmd_pipline: the positional arguments of each "context|operation" entry
cmd_pipline_args ==
    [p \in {<<"device", "update">>, <<"configuration", "create">>,
            <<"configuration", "update">>} |-> <<>>]
    @@ (<<"configuration", "delete">> :> <<"configurationID">>)
    @@ (<<"location", "create">> :> <<"configurationID">>)
    @@ (<<"location", "update">> :> <<"configurationID", "locationID">>)
    @@ (<<"location", "delete">> :> <<"configurationID", "locationID">>)
    @@ (<<"sensor", "create">> :> <<"configurationID", "locationID">>)
    @@ (<<"sensor", "update">> :> <<"configurationID", "locationID", "sensorID">>)
    @@ (<<"sensor", "delete">> :> <<"configurationID", "locationID", "sensorID">>)

Range(s) == {s[i] : i \in DOMAIN s}

apply_cmd(cfg, cmd) ==
    LET pipe_cmd == <<cmd.context, cmd.operation>>
        data == cmd.data
    IN  IF pipe_cmd \notin DOMAIN cmd_pipline_args
            THEN Raised(cfg, "KeyError: unknown context|operation")
        ELSE IF ~(Range(cmd_pipline_args[pipe_cmd]) \subseteq DOMAIN data)
            THEN Raised(cfg, "KeyError: missing argument")
        ELSE CASE pipe_cmd = <<"device", "update">> -> update_device_info(cfg, data)
               [] pipe_cmd = <<"configuration", "create">> ->
                      add_device_configuration(cfg, data)
               [] pipe_cmd = <<"configuration", "update">> ->
                      update_device_configuration_info(cfg, data)
               [] pipe_cmd = <<"configuration", "delete">> ->
                      delete_device_configuration(cfg, data.configurationID)
               [] pipe_cmd = <<"location", "create">> ->
                      add_location(cfg, data, data.configurationID)
               [] pipe_cmd = <<"location", "update">> ->
                      update_location_info(cfg, data, data.configurationID, data.locationID)
               [] pipe_cmd = <<"location", "delete">> ->
                      delete_location(cfg, data.configurationID, data.locationID)
               [] pipe_cmd = <<"sensor", "create">> ->
                      add_sensor(cfg, data, data.configurationID, data.locationID)
               [] pipe_cmd = <<"sensor", "update">> ->
                      update_sensor_info(cfg, data, data.configurationID,
                                         data.locationID, data.sensorID)
               [] pipe_cmd = <<"sensor", "delete">> ->
                      delete_sensor(cfg, data.configurationID, data.locationID,
                                    data.sensorID)

\* what the try block of _handle_config_update leaves: validation, then apply_cmd
RunConfigUpdate(cfg, cmd) ==
    LET v == validateConfigOperationCommand(cmd)
    IN  IF v # "" THEN Raised(cfg, v) ELSE apply_cmd(cfg, cmd)

RefreshEvent(tree) == [event |-> "refresh_device_data", data |-> tree]
ErrorEvent(msg, tree) ==
    [event |-> "error", data |-> [message |-> msg, device_id |-> tree.id]]

\* report_error: the error event goes out only while connected
report_error(msg, tree) == IF connected THEN <<ErrorEvent(msg, tree)>> ELSE <<>>

NoCmd == [context |-> "", operation |-> "", data |-> <<>>]

_handle_config_update(cmd) ==
    LET r == RunConfigUpdate(config, cmd)
    IN  /\ handler = "idle"
        /\ handler' = "done"
        /\ prev' = config
        /\ lastCmd' = cmd
        /\ config' = r.tree
        /\ disk' = IF r.err = "" THEN r.tree ELSE disk
        /\ result' = IF r.err = "" THEN "ok" ELSE "error"
        /\ emitted' = IF r.err = "" THEN <<RefreshEvent(r.tree)>>
                      ELSE report_error(r.err, r.tree)
        /\ UNCHANGED <<connected, focus>>

\* the handler returns to the socket client's event loop
HandlerReturns ==
    /\ handler = "done"
    /\ handler' = "idle"
    /\ prev' = config
    /\ lastCmd' = NoCmd
    /\ result' = "none"
    /\ emitted' = <<>>
    /\ UNCHANGED <<config, disk, connected, focus>>

----------------------------------------------------------------------------
(* The command sender.  It edits one part of the tree: the device record,   *)
(* the list of configurations, or the locations and sensors of              *)
(* configuration "c1".  It gives a new configuration the first id that is   *)
(* not in use, and it keeps the locations and the sensors of a              *)
(* configuration within the bounds.                                         *)

ConfigIdOrder == <<"c1", "c2", "c3", "c4">>
ConfigIds == Range(ConfigIdOrder)
\* the configurations a location or sensor command names: "c9" is never there
TargetConfigIds == {"c1", "c9"}
LocationIds == {"l1", "l2"}
SensorIds == {"s1", "s2"}

SensorData(id) ==
    [id |-> id, mode |-> "auto", margin |-> 10, maxValveTimeOpen |-> 150,
     targetPh |-> 700, probePort |-> 0, checkInterval |-> 5, createdAt |-> "t1",
     devicePort |-> "i1", phMonitorFrequency |-> 1]

\* sensor records that _validate_sensor rejects, one for each of its checks
BadSensors ==
    { [SensorData("s1") EXCEPT !["margin"] = 0],
      [SensorData("s1") EXCEPT !["margin"] = 101],
      [SensorData("s1") EXCEPT !["maxValveTimeOpen"] = 100],
      [SensorData("s1") EXCEPT !["maxValveTimeOpen"] = 30001],
      [SensorData("s1") EXCEPT !["targetPh"] = 50],
      [SensorData("s1") EXCEPT !["targetPh"] = 1500],
      [SensorData("s1") EXCEPT !["mode"] = "neutral"],
      [SensorData("s1") EXCEPT !["id"] = NonString],
      Pop(SensorData("s1"), {"checkInterval"}) }

\* 14.5 is out of range as it stands and in range once add_sensor has made it 14
EdgeSensor == [SensorData("s2") EXCEPT !["targetPh"] = 1450]

LocationData(id, sensors) ==
    [id |-> id, name |-> "n1", createdAt |-> "t1", sensors |-> sensors]

ConfigurationData(id, locations) ==
    [id |-> id, name |-> "n1", createdAt |-> "t1", locations |-> locations]

Cmd(context, operation, data) ==
    [context |-> context, operation |-> operation, data |-> data]

Target2(c, l) == [configurationID |-> c, locationID |-> l]
Target3(c, l, s) == [configurationID |-> c, locationID |-> l, sensorID |-> s]

DeviceCommands ==
    { Cmd("device", "update", d) :
        d \in { [name |-> "n2"],
                [name |-> "n2", id |-> "d9", createdAt |-> "t2", status |-> "busy",
                 configurations |-> <<>>] } }

ConfigurationCommands(c0) ==
    { Cmd("configuration", "create", ConfigurationData(c, ls)) :
        c \in {c0},
        ls \in { <<>>, <<LocationData("l1", <<SensorData("s1")>>)>>,
                 <<LocationData("l1", <<EdgeSensor>>)>> } }
    \cup { Cmd("configuration", "create", Pop(ConfigurationData(c0, <<>>), {"name"})) }
    \cup { Cmd("configuration", "update", d) :
            d \in { [id |-> c, name |-> "n2", createdAt |-> "t2",
                     locations |-> <<>>] : c \in ConfigIds } \cup { [name |-> "n2"] } }
    \cup { Cmd("configuration", "delete", [configurationID |-> c]) : c \in ConfigIds }
    \cup { Cmd("configuration", "delete", [id |-> "c1"]) }

LocationCommands ==
    { Cmd("location", "create", Merge(LocationData(l, ss), [configurationID |-> c])) :
        c \in TargetConfigIds, l \in LocationIds,
        ss \in { <<>>, <<SensorData("s1")>> } }
    \cup { Cmd("location", "create",
               Merge(LocationData("l1", <<b>>), [configurationID |-> "c1"])) :
            b \in {EdgeSensor, [SensorData("s1") EXCEPT !["margin"] = 0]} }
    \cup { Cmd("location", "create",
               Merge(Pop(LocationData("l1", <<>>), {"name"}), [configurationID |-> "c1"])) }
    \cup { Cmd("location", "create", LocationData("l1", <<>>)) }
    \cup { Cmd("location", "update",
               Merge([name |-> "n2", id |-> "l9", createdAt |-> "t2", sensors |-> <<>>],
                     Target2(c, l))) : c \in TargetConfigIds, l \in LocationIds }
    \cup { Cmd("location", "delete", Target2(c, l)) :
            c \in TargetConfigIds, l \in LocationIds }

SensorUpdate ==
    [SensorData("s9") EXCEPT !["mode"] = "acidic", !["targetPh"] = 650,
                             !["createdAt"] = "t2"]

SensorCommands ==
    { Cmd("sensor", "create", Merge(s, Target2(c, l))) :
        c \in TargetConfigIds, l \in LocationIds, s \in {SensorData("s1"), EdgeSensor} }
    \cup { Cmd("sensor", "create", Merge(s, Target2("c1", "l1"))) :
            s \in BadSensors \cup {Pop(SensorData("s1"), {"targetPh"})} }
    \cup { Cmd("sensor", "update", Merge(SensorUpdate, Target3(c, l, s))) :
            c \in TargetConfigIds, l \in LocationIds, s \in SensorIds }
    \cup { Cmd("sensor", "update", Merge(b, Target3("c1", "l1", "s1"))) : b \in BadSensors }
    \cup { Cmd("sensor", "delete", Target3(c, l, s)) :
            c \in TargetConfigIds, l \in LocationIds, s \in SensorIds }
    \cup { Cmd("sensor", "delete", Target2("c1", "l1")) }

\* envelopes that validateConfigOperationCommand or the dispatch table refuses
RefusedCommands ==
    { [context |-> "sensor", operation |-> "delete"],
      Cmd("experiment", "update", [name |-> "n2"]),
      Cmd("device", "rename", [name |-> "n2"]),
      Cmd("device", "read", [name |-> "n2"]),
      Cmd("device", "create", [name |-> "n2"]),
      Cmd("device", "delete", [name |-> "n2"]) }

IdsInUse(tree) == {tree.configurations[i].id : i \in 1..Len(tree.configurations)}

\* the first id of ConfigIdOrder that no configuration of the tree has
FreshId(tree) ==
    LET free == {n \in DOMAIN ConfigIdOrder : ConfigIdOrder[n] \notin IdsInUse(tree)}
    IN  ConfigIdOrder[CHOOSE n \in free : \A m \in free : n <= m]

CommandsOf(f, tree) ==
    IF f = "device" THEN DeviceCommands \cup RefusedCommands
    ELSE IF f = "configurations"
        THEN ConfigurationCommands(FreshId(tree)) \cup RefusedCommands
    ELSE LocationCommands \cup SensorCommands \cup RefusedCommands

LocationsOf(conf) == Len(conf.locations)

SensorsOf(conf) == SumSeq([j \in 1..Len(conf.locations) |-> Len(conf.locations[j].sensors)])

\* the command leaves no configuration with more locations or sensors than the
\* bounds, unless it had as many before
WithinBounds(before, after) ==
    \A i \in 1..Len(after.configurations) :
        LET conf == after.configurations[i]
            old == IF i <= Len(before.configurations) THEN before.configurations[i]
                   ELSE ConfigurationData("", <<>>)
        IN  /\ LocationsOf(conf) <= MaxLocations \/ LocationsOf(conf) <= LocationsOf(old)
            /\ SensorsOf(conf) <= MaxSensors \/ SensorsOf(conf) <= SensorsOf(old)

Sendable(cmd) == WithinBounds(config, RunConfigUpdate(config, cmd).tree)

----------------------------------------------------------------------------
(* config_handler.py: DeviceInputMappingHandler, the default input pin map *)

InputPinMap ==
    [i1 |-> [probe |-> 0, acidic |-> 9, alkaline |-> 11],
     i2 |-> [probe |-> 1, acidic |-> 13, alkaline |-> 15],
     i3 |-> [probe |-> 2, acidic |-> 16, alkaline |-> 18],
     i4 |-> [probe |-> 3, acidic |-> 19, alkaline |-> 21]]

get_pump_pins(input_number) ==
    <<InputPinMap[input_number].acidic, InputPinMap[input_number].alkaline>>

----------------------------------------------------------------------------
(* controllers.py: PHController *)

Abs(x) == IF x < 0 THEN 0 - x ELSE x
Min(a, b) == IF a <= b THEN a ELSE b
Max(a, b) == IF a >= b THEN a ELSE b

\* __init__ with init_sensor: the pair of get_pump_pins is unpacked into
\* alkaline_pump_pin, acidic_pump_pin, in that order
PHController(location, sensor) ==
    [location |-> location,
     device_port |-> sensor.devicePort,
     target_ph |-> sensor.targetPh,
     max_pump_time |-> sensor.maxValveTimeOpen,
     margin |-> sensor.margin,
     mode |-> sensor.mode,
     phMonitorFrequency |-> sensor.phMonitorFrequency,
     alkaline_pump_pin |-> get_pump_pins(sensor.devicePort)[1],
     acidic_pump_pin |-> get_pump_pins(sensor.devicePort)[2]]

\* read_ph gives a number, or None (ok = FALSE) when reading raised
Reading(ph) == [ok |-> TRUE, ph |-> ph]
NoReading == [ok |-> FALSE, ph |-> 0]

calculate_pump_time_Uncapped(c, current_ph) == Abs(c.target_ph - current_ph) * 2

calculate_pump_time(c, current_ph) ==
    Min(Abs(c.target_ph - current_ph) * 2, c.max_pump_time)

NoPump == [pump |-> "none", pump_pin |-> 0]

determine_pump_Reversed(c, current_ph) ==
    LET is_acidic == current_ph < c.target_ph
        define_base_pump == c.mode = "alkaline" \/ c.mode = "auto"
        define_acid_pump == c.mode = "acidic" \/ c.mode = "auto"
    IN  IF ~is_acidic /\ define_base_pump
            THEN [pump |-> "alkaline", pump_pin |-> c.alkaline_pump_pin]
        ELSE IF is_acidic /\ define_acid_pump
            THEN [pump |-> "acidic", pump_pin |-> c.acidic_pump_pin]
        ELSE NoPump

\* determine_pump: NoPump stands for the bare "return" (None) of its else branch
determine_pump(c, current_ph) ==
    LET is_acidic == current_ph < c.target_ph
        define_base_pump == c.mode = "alkaline" \/ c.mode = "auto"
        define_acid_pump == c.mode = "acidic" \/ c.mode = "auto"
    IN  IF is_acidic /\ define_base_pump
            THEN [pump |-> "alkaline", pump_pin |-> c.alkaline_pump_pin]
        ELSE IF ~is_acidic /\ define_acid_pump
            THEN [pump |-> "acidic", pump_pin |-> c.acidic_pump_pin]
        ELSE NoPump

\* adjust_ph on the reading its own read_ph gave: what it picked, whether it
\* raised, and the arguments of the thread it started (started = TRUE).
\*   None compared with a number raises TypeError;
\*   "pump, pump_pin = None" raises TypeError.
adjust_ph(c, read) ==
    LET quiet == [raised |-> FALSE, started |-> FALSE, pump |-> "none",
                  pump_pin |-> 0, pump_time |-> 0]
    IN  IF ~read.ok THEN [quiet EXCEPT !.raised = TRUE]
        ELSE IF c.target_ph - c.margin <= read.ph /\ read.ph <= c.target_ph + c.margin
            THEN quiet
        ELSE LET d == determine_pump(c, read.ph)
             IN  IF d = NoPump THEN [quiet EXCEPT !.raised = TRUE]
                 ELSE IF d.pump_pin = 0 THEN [quiet EXCEPT !.pump = d.pump]
                 ELSE [raised |-> FALSE, started |-> TRUE, pump |-> d.pump,
                       pump_pin |-> d.pump_pin,
                       pump_time |-> calculate_pump_time(c, read.ph)]

\* a change_pump_state thread: wrote tells that it has driven its pin on,
\* left is the level of its pin when it left the "with gpio_lock" block (2
\* before that), endFlag its pump's flag when the thread ended
Worker(ctl, location, a) ==
    [ctl |-> ctl, location |-> location, pump |-> a.pump, pump_pin |-> a.pump_pin,
     pump_time |-> a.pump_time, pc |-> "start", wrote |-> FALSE, left |-> 2,
     endFlag |-> FALSE]

FlagOf(w) == IF w.pump = "acidic" THEN "is_pumping_acid" ELSE "is_pumping_base"

\* gpio_lock.acquire of activate_pump: blocks while another thread holds it
CanAcquire_NoLock(w) == TRUE

CanAcquire(w) == gpio_lock = 0

----------------------------------------------------------------------------
(* experiment.py: ExperimentHandler *)

\* the snapshot period of update_experimetal_data
SnapshotPeriod == 30

\* configurationID before any experiment (None)
NoConfiguration == "None"

\* reset_experimental_data
InitialExperimentData ==
    [duration |-> 0, configurationID |-> NoConfiguration, status |-> "ready",
     locations |-> <<>>, logs |-> <<>>]

HasId(x, id) == x.id = id

get_experiment_locations_First(configurationID) ==
    LET conf == SelectSeq(device_handler.configurations,
                          LAMBDA x : HasId(x, configurationID))
    IN  [raised |-> FALSE,
         locations |-> IF Len(conf) > 0 THEN conf[1].locations ELSE <<>>]

\* get_experiment_locations: raises unless exactly one configuration of
\* experiment.py's device_handler has the id
get_experiment_locations(configurationID) ==
    LET conf == SelectSeq(device_handler.configurations,
                          LAMBDA x : HasId(x, configurationID))
    IN  [raised |-> Len(conf) # 1,
         locations |-> IF Len(conf) = 1 THEN conf[1].locations ELSE <<>>]

\* reset_location_data on the experiment data exp
reset_location_data(exp) ==
    LET r == get_experiment_locations(exp.configurationID)
    IN  IF r.raised THEN [raised |-> TRUE, exp |-> exp]
        ELSE [raised |-> FALSE,
              exp |-> [exp EXCEPT !.locations =
                          [j \in 1..Len(r.locations) |->
                              [id |-> r.locations[j].id, data |-> <<>>]]]]

update_experimetal_data_EveryTick(merged) ==
    reset_location_data(merged) @@ [saved |-> TRUE, snapshot |-> merged]

\* update_experimetal_data, merged being {**self.experiment_data, **data}:
\* at a multiple of the snapshot period the data is saved and the location
\* buffers are reset
update_experimetal_data(merged) ==
    IF merged.duration % SnapshotPeriod = 0
    THEN reset_location_data(merged) @@ [saved |-> TRUE, snapshot |-> merged]
    ELSE [raised |-> FALSE, exp |-> merged, saved |-> FALSE, snapshot |-> merged]


emit_Always(channel, data) == [channel |-> channel, data |-> data, sent |-> TRUE]

\* emit while connected lists the backup directory first (get_unsent_data):
\* FileNotFoundError when the directory does not exist
EmitRaises == connected /\ ~backup_dir

\* emit: the event is handed to the socket only while connected
emit(channel, data) ==
    [channel |-> channel, data |-> data, sent |-> connected /\ ~EmitRaises]

send_log_to_client(type, location) ==
    emit("update_experiment_log", [type |-> type, location |-> location])

\* SensorManager.update_client_pump_status: socket.emit, whatever the connection
update_client_pump_status(location, pump, status) ==
    [channel |-> "update_pump_status",
     data |-> [location |-> location, pump |-> pump, status |-> status],
     sent |-> TRUE]

Outbox(events) == [connected |-> connected, events |-> events]

\* send_data_to_client: every reading of the batch, stamped with the duration,
\* is appended to the buffer of the location at the same index (IndexError
\* when there is none), then the batch is emitted
send_data_to_client(exp, data) ==
    LET n == Min(Len(data), Len(exp.locations))
        point(j) == [x |-> exp.duration, y |-> data[j].y]
    IN  [raised |-> Len(data) > Len(exp.locations) \/ EmitRaises,
         exp |-> [exp EXCEPT !.locations =
                     [j \in 1..Len(exp.locations) |->
                         IF j <= n
                         THEN [exp.locations[j] EXCEPT !.data = Append(@, point(j))]
                         ELSE exp.locations[j]]],
         events |-> IF Len(data) > Len(exp.locations) THEN <<>>
                    ELSE << emit("sensor_data",
                                 [j \in 1..Len(data) |->
                                     [id |-> data[j].id, x |-> exp.duration,
                                      y |-> data[j].y]]) >>]

\* update_duration, the callback of the timer
update_duration(exp) ==
    LET r == update_experimetal_data([exp EXCEPT !.duration = @ + 1])
    IN  [raised |-> r.raised \/ (EmitRaises /\ ~r.saved), exp |-> r.exp, saved |-> r.saved,
         snapshot |-> r.snapshot,
         events |-> IF r.raised THEN <<>>
                    ELSE << emit("update_experiment_status",
                                 [duration |-> r.exp.duration]) >>]

----------------------------------------------------------------------------
(* controllers.py: the change_pump_state thread *)

\* socket.emit on a socket that is not connected: python-socketio raises, or
\* the event is dropped
SocketEmitOutcomes == IF connected THEN {"sent"} ELSE {"raised", "dropped"}

\* change_pump_state up to the lock: the flag is set, the "pump on" status
\* and log are sent
WorkerStart(w) ==
    /\ workers[w].pc = "start"
    /\ flags' = [flags EXCEPT ![workers[w].ctl][FlagOf(workers[w])] = TRUE]
    /\ \E o \in SocketEmitOutcomes :
          IF o = "raised"
          THEN /\ workers' = [workers EXCEPT ![w].pc = "failed", ![w].endFlag = TRUE]
               /\ UNCHANGED outbox
          ELSE /\ workers' = IF EmitRaises
                              THEN [workers EXCEPT ![w].pc = "failed", ![w].endFlag = TRUE]
                              ELSE [workers EXCEPT ![w].pc = "waitlock"]
               /\ outbox' = Outbox(<< send_log_to_client("info", workers[w].location) >>)
    /\ UNCHANGED <<controllers, is_running, dataAquisitionInterval, loop, decision,
                   gpio_lock, pins, chip, probe>>

WorkerAcquire(w) ==
    /\ workers[w].pc = "waitlock"
    /\ CanAcquire(w)
    /\ gpio_lock' = w
    /\ workers' = [workers EXCEPT ![w].pc = "locked"]
    /\ UNCHANGED <<controllers, is_running, dataAquisitionInterval, loop, decision,
                   pins, chip, flags, probe, outbox>>

\* the level of a pin; a pin that was never claimed drives nothing
PinLevel(q) == IF q \in DOMAIN pins THEN pins[q] ELSE 1

\* leaving the with block, by its end or by an exception, releases the lock
Release(w) == IF gpio_lock = w THEN 0 ELSE gpio_lock

\* gpio_write(chip, pump_pin, 0).  On a closed chip the write changes no pin:
\* lgpio raises (the thread ends there), the mock returns -1 (it goes on).
WorkerWriteOn(w) ==
    /\ workers[w].pc = "locked"
    /\ \/ /\ chip = "open"
          /\ pins' = [pins EXCEPT ![workers[w].pump_pin] = 0]
          /\ workers' = [workers EXCEPT ![w].pc = "pumping", ![w].wrote = TRUE]
          /\ UNCHANGED gpio_lock
       \/ /\ chip = "closed"
          /\ workers' = [workers EXCEPT ![w].pc = "pumping"]
          /\ UNCHANGED <<pins, gpio_lock>>
       \/ /\ chip = "closed"
          /\ workers' = [workers EXCEPT ![w].pc = "failed",
                                        ![w].left = PinLevel(workers[w].pump_pin),
                                        ![w].endFlag = flags[workers[w].ctl][FlagOf(workers[w])]]
          /\ gpio_lock' = Release(w)
          /\ UNCHANGED pins
    /\ UNCHANGED <<controllers, is_running, dataAquisitionInterval, loop, decision,
                   chip, flags, probe, outbox>>

\* time.sleep(pump_time) is over: gpio_write(chip, pump_pin, 1), end of the
\* with block
WorkerWriteOff(w) ==
    /\ workers[w].pc = "pumping"
    /\ \/ /\ chip = "open"
          /\ pins' = [pins EXCEPT ![workers[w].pump_pin] = 1]
          /\ workers' = [workers EXCEPT ![w].pc = "closing", ![w].left = 1]
       \/ /\ chip = "closed"
          /\ workers' = [workers EXCEPT ![w].pc = "closing",
                                        ![w].left = PinLevel(workers[w].pump_pin)]
          /\ UNCHANGED pins
       \/ /\ chip = "closed"
          /\ workers' = [workers EXCEPT ![w].pc = "failed",
                                        ![w].left = PinLevel(workers[w].pump_pin),
                                        ![w].endFlag = flags[workers[w].ctl][FlagOf(workers[w])]]
          /\ UNCHANGED pins
    /\ gpio_lock' = Release(w)
    /\ UNCHANGED <<controllers, is_running, dataAquisitionInterval, loop, decision,
                   chip, flags, probe, outbox>>

\* the "pump off" status and log are sent, the flag is cleared, the thread ends
WorkerFinish(w) ==
    /\ workers[w].pc = "closing"
    /\ \E o \in SocketEmitOutcomes :
          IF o = "raised"
          THEN /\ workers' = [workers EXCEPT ![w].pc = "failed",
                                 ![w].endFlag = flags[workers[w].ctl][FlagOf(workers[w])]]
               /\ UNCHANGED <<flags, outbox>>
          ELSE /\ workers' = IF EmitRaises
                              THEN [workers EXCEPT ![w].pc = "failed",
                                       ![w].endFlag = flags[workers[w].ctl][FlagOf(workers[w])]]
                              ELSE [workers EXCEPT ![w].pc = "done", ![w].endFlag = FALSE]
               /\ flags' = IF EmitRaises THEN flags
                           ELSE [flags EXCEPT ![workers[w].ctl][FlagOf(workers[w])] = FALSE]
               /\ outbox' = Outbox(<< send_log_to_client("info", workers[w].location) >>)
    /\ UNCHANGED <<controllers, is_running, dataAquisitionInterval, loop, decision,
                   gpio_lock, pins, chip, probe>>

\* an exception during time.sleep(pump_time): the with block is left, nothing
\* in activate_pump or change_pump_state catches it, the thread ends
WorkerWaitRaises(w) ==
    /\ workers[w].pc = "pumping"
    /\ workers' = [workers EXCEPT ![w].pc = "failed",
                                  ![w].left = PinLevel(workers[w].pump_pin),
                                  ![w].endFlag = flags[workers[w].ctl][FlagOf(workers[w])]]
    /\ gpio_lock' = Release(w)
    /\ UNCHANGED <<controllers, is_running, dataAquisitionInterval, loop, decision,
                   pins, chip, flags, probe, outbox>>

----------------------------------------------------------------------------
(* controllers.py: SensorManager.run_controllers *)

\* what read_ph can give: 6.0, 6.9, 7.5, or None
Readings == {Reading(600), Reading(690), Reading(750), NoReading}

NoDecision == [ctl |-> 0, read |-> NoReading, raised |-> FALSE, started |-> FALSE,
               pump |-> "none"]

\* a run_controllers thread: time_ellapsed and send_data are its locals, n is
\* the range of the for loop at hand, i the controller it comes to next;
\* adjusted (the controllers whose adjust_ph was called) and sends (the calls
\* of self.send_data) are kept for the tick at hand
LoopThread(pc, t) ==
    [pc |-> pc, time_ellapsed |-> t, n |-> 0, i |-> 0, send_data |-> <<>>,
     adjusted |-> {}, sends |-> 0]

Acquires(t) == t % dataAquisitionInterval = 0

\* The run_controllers threads are anonymous (self.thread names the latest
\* only): loop keeps them ordered by their progress.
Rank(th) ==
    (CASE th.pc = "new" -> 0 [] th.pc = "iterate" -> 1 [] th.pc = "sleep" -> 2
       [] th.pc = "exited" -> 3 [] OTHER -> 4) + 10 * th.time_ellapsed + 100 * th.i

RECURSIVE Insert(_, _)
Insert(th, s) ==
    IF s = <<>> THEN << th >>
    ELSE IF Rank(th) <= Rank(Head(s)) THEN << th >> \o s
    ELSE << Head(s) >> \o Insert(th, Tail(s))

Replace(s, k, th) == Insert(th, RemoveAt(s, k))

\* the except clause of run_controllers: gpiochip_close(chip), then the error
\* log.  On a chip already closed lgpio raises (no log is sent), the mock
\* returns -1.
AbortOutcomes == IF chip = "closed" THEN {"logged", "raised"} ELSE {"logged"}

AbortEvents(o) == IF o = "logged" THEN << send_log_to_client("error", "Device") >> ELSE <<>>

StartsThread_Inline == Len(workers) < MaxWorkers /\ gpio_lock = 0

\* adjust_ph hands change_pump_state to a new thread and t.start() returns at
\* once, whatever the lock; at most MaxWorkers threads are kept
StartsThread == Len(workers) < MaxWorkers

\* read_ph that gives None has sent an error log
ReadEvents(read, location) ==
    IF read.ok THEN <<>> ELSE << send_log_to_client("error", location) >>

\* the body of the for loop for controller i: read_ph for the batch when the
\* tick is a multiple of dataAquisitionInterval, adjust_ph when it is a
\* multiple of phMonitorFrequency; after the last controller the batch is
\* sent.  An exception leaves the loop by its except clause.
LoopIteration(k) ==
    /\ loop[k].pc = "iterate"
    /\ LET th == loop[k]
           t == th.time_ellapsed
           gone == th.i > Len(controllers)
           c == controllers[th.i]
           last == th.i = th.n
           acquires == ~gone /\ Acquires(t)
           adjusts == ~gone /\ t % c.phMonitorFrequency = 0
       IN  \E y \in (IF acquires THEN probe ELSE {NoReading}),
              read \in (IF adjusts THEN probe ELSE {NoReading}),
              o \in AbortOutcomes :
              LET failed == acquires /\ ~y.ok /\ EmitRaises
                  batch == IF acquires /\ ~failed
                           THEN Append(th.send_data, [id |-> c.id, y |-> y])
                           ELSE th.send_data
                  adjusting == adjusts /\ ~failed
                  a == IF adjusting THEN adjust_ph(c, read)
                       ELSE [raised |-> FALSE, started |-> FALSE, pump |-> "none",
                             pump_pin |-> 0, pump_time |-> 0]
                  sending == ~gone /\ ~failed /\ ~a.raised /\ last /\ Acquires(t)
                  s == IF sending THEN send_data_to_client(experiment_data, batch)
                       ELSE [raised |-> FALSE, exp |-> experiment_data, events |-> <<>>]
                  raised == gone \/ failed \/ a.raised \/ s.raised
                  events == (IF acquires THEN ReadEvents(y, c.location) ELSE <<>>)
                            \o (IF adjusting THEN ReadEvents(read, c.location) ELSE <<>>)
                            \o s.events
                            \o (IF raised THEN AbortEvents(o) ELSE <<>>)
              IN  /\ ~raised => o = "logged"
                  /\ a.started => StartsThread
                  /\ decision' = IF adjusting
                                 THEN [ctl |-> th.i, read |-> read, raised |-> a.raised,
                                       started |-> a.started, pump |-> a.pump]
                                 ELSE decision
                  /\ workers' = IF a.started THEN Append(workers, Worker(th.i, c.location, a))
                                ELSE workers
                  /\ loop' = Replace(loop, k,
                                 [th EXCEPT !.pc = IF raised THEN "aborted"
                                                   ELSE IF last THEN "sleep" ELSE "iterate",
                                            !.i = IF raised \/ last THEN th.i ELSE th.i + 1,
                                            !.send_data = batch,
                                            !.adjusted = IF adjusting THEN @ \cup {th.i} ELSE @,
                                            !.sends = IF sending THEN @ + 1 ELSE @])
                  /\ chip' = IF raised THEN "closed" ELSE chip
                  /\ experiment_data' = s.exp
                  /\ outbox' = IF events = <<>> THEN outbox ELSE Outbox(events)
    /\ UNCHANGED <<controllers, is_running, dataAquisitionInterval, gpio_lock, pins,
                   flags, probe>>

\* the while test of run_controllers, by a thread just started or one whose
\* time.sleep(1) is over; with no controller the for loop is empty and the
\* empty batch is sent at once
LoopTop(k) ==
    /\ loop[k].pc \in {"new", "sleep"}
    /\ LET th == loop[k]
           t == IF th.pc = "new" THEN 0 ELSE th.time_ellapsed + 1
           empty == Len(controllers) = 0
           sending == is_running /\ empty /\ Acquires(t)
           s == IF sending THEN send_data_to_client(experiment_data, <<>>)
                ELSE [raised |-> FALSE, exp |-> experiment_data, events |-> <<>>]
       IN  /\ t <= MaxTicks
           /\ \E o \in AbortOutcomes :
                 LET events == s.events \o (IF s.raised THEN AbortEvents(o) ELSE <<>>)
                 IN  /\ ~s.raised => o = "logged"
                     /\ outbox' = IF events = <<>> THEN outbox ELSE Outbox(events)
           /\ loop' = Replace(loop, k,
                          IF ~is_running THEN LoopThread("exited", 0)
                          ELSE [pc |-> IF s.raised THEN "aborted"
                                       ELSE IF empty THEN "sleep" ELSE "iterate",
                                time_ellapsed |-> t, n |-> Len(controllers),
                                i |-> IF empty THEN 0 ELSE 1, send_data |-> <<>>,
                                adjusted |-> {}, sends |-> IF sending THEN 1 ELSE 0])
           /\ chip' = IF s.raised THEN "closed" ELSE chip
           /\ experiment_data' = s.exp
    /\ UNCHANGED <<controllers, is_running, dataAquisitionInterval, decision, workers,
                   gpio_lock, pins, flags, probe>>

----------------------------------------------------------------------------
(* timer.py: IntervalTimer._run_interval calling update_duration *)

\* the durations at which the timer is followed: the first MaxTicks seconds
\* of a period and the two seconds before its end
TickWindow == (0..MaxTicks) \cup {SnapshotPeriod - 2, SnapshotPeriod - 1}

\* the rest of update_duration after save_data: reset_location_data, then the
\* emit of the new duration
update_duration_Cleared(exp) ==
    LET r == reset_location_data(exp)
    IN  [raised |-> r.raised \/ EmitRaises, exp |-> r.exp,
         events |-> IF r.raised THEN <<>>
                    ELSE << emit("update_experiment_status",
                                 [duration |-> r.exp.duration]) >>]

\* One call of update_duration by the timer thread.  At a multiple of the
\* snapshot period it is two steps, for no lock is held between save_data and
\* reset_location_data: timer.saving tells that the snapshot is written and
\* the buffers are not yet reset.
TimerTick ==
    /\ timer.running
    /\ timer.alive > 0
    /\ experiment_data.duration % SnapshotPeriod \in TickWindow
    /\ IF timer.saving
       THEN LET c == update_duration_Cleared(experiment_data)
            IN  /\ experiment_data' = c.exp
                /\ outbox' = IF c.events = <<>> THEN outbox ELSE Outbox(c.events)
                /\ timer' = [timer EXCEPT !.saving = FALSE,
                                          !.alive = IF c.raised THEN @ - 1 ELSE @]
                /\ UNCHANGED <<backup_dir, snapshots>>
       ELSE LET r == update_duration(experiment_data)
            IN  IF r.saved
                THEN /\ experiment_data' = r.snapshot
                     /\ backup_dir' = TRUE
                     /\ snapshots' = snapshots \cup {r.snapshot}
                     /\ timer' = [timer EXCEPT !.saving = TRUE]
                     /\ UNCHANGED outbox
                ELSE /\ experiment_data' = r.exp
                     /\ outbox' = IF r.events = <<>> THEN outbox ELSE Outbox(r.events)
                     /\ timer' = IF r.raised THEN [timer EXCEPT !.alive = @ - 1] ELSE timer
                     /\ UNCHANGED <<backup_dir, snapshots>>
----------------------------------------------------------------------------
(* The configuration protocol *)

EmptyTree ==
    [id |-> "d1", name |-> "pH Monitor Device", createdAt |-> "t0",
     isConnected |-> FALSE, status |-> "ready", configurations |-> <<>>]

\* the tree the sender of device, location and sensor commands starts from:
\* "c1" has no location yet, "c2" holds location "l1" with sensor "s1"
TwoConfigurationsTree ==
    [EmptyTree EXCEPT !["configurations"] =
        << ConfigurationData("c1", <<>>),
           ConfigurationData("c2", <<LocationData("l1", <<SensorData("s1")>>)>>) >>]

\* no experiment has been started: no controller, no loop, no worker
CtlIdle ==
    /\ controllers = <<>>
    /\ is_running = FALSE
    /\ dataAquisitionInterval = 0
    /\ loop = <<>>
    /\ decision = NoDecision
    /\ workers = <<>>
    /\ gpio_lock = 0
    /\ pins = <<>>
    /\ chip = "open"
    /\ flags = <<>>

NoCommand == [cmd |-> "", data |-> <<>>, result |-> "none"]

\* the experiment handler as its constructor leaves it, the timer not started
ExpIdle ==
    /\ experiment_data = InitialExperimentData
    /\ timer = [running |-> FALSE, alive |-> 0, saving |-> FALSE]
    /\ phase = "ready"
    /\ command = NoCommand
    /\ outbox = Outbox(<<>>)
    /\ backup_dir = FALSE
    /\ snapshots = {}
    /\ connect_result = "none"

Init ==
    /\ focus \in {"device", "configurations", "locations"}
    /\ config = IF focus = "configurations" THEN EmptyTree ELSE TwoConfigurationsTree
    /\ disk = config
    /\ device_handler = config
    /\ connected = TRUE
    /\ handler = "idle"
    /\ prev = config
    /\ lastCmd = NoCmd
    /\ result = "none"
    /\ emitted = <<>>
    /\ CtlIdle
    /\ probe = Readings
    /\ ExpIdle

ConfigUpdate ==
    /\ \E cmd \in {c \in CommandsOf(focus, config) : Sendable(c)} :
           _handle_config_update(cmd)
    /\ UNCHANGED <<ctlVars, expVars>>

Return == HandlerReturns /\ UNCHANGED <<ctlVars, expVars>>

Next == ConfigUpdate \/ Return

Spec == Init /\ [][Next]_vars

----------------------------------------------------------------------------
(* The control loop with its actuation workers.  An experiment on a         *)
(* configuration with two locations, on input ports i1 and i2, has been     *)
(* started with dataAquisitionInterval 5; the mode of each sensor is any    *)
(* of the three.  The loop has sent the batch of tick 0, whose readings     *)
(* were within the band, and has come to tick 1.                            *)

Modes == {"acidic", "alkaline", "auto"}

RegisteredSensor(port, mode) ==
    [SensorData("s1") EXCEPT !["devicePort"] = port, !["mode"] = mode]

PumpPins ==
    UNION { {InputPinMap[p].acidic, InputPinMap[p].alkaline} : p \in {"i1", "i2"} }

TwoLocationsTree(m1, m2) ==
    [EmptyTree EXCEPT !["configurations"] =
        << ConfigurationData("c1",
              << LocationData("l1", <<RegisteredSensor("i1", m1)>>),
                 LocationData("l2", <<RegisteredSensor("i2", m2)>>) >>) >>]

\* register_sensors for one location: the controller is made from the first
\* sensor of the location and kept with the location
Registered(loc) == [id |-> loc.id] @@ PHController(loc.name, loc.sensors[1])

NoFlags == [is_pumping_acid |-> FALSE, is_pumping_base |-> FALSE]

StartCommand(c, interval) ==
    [cmd |-> "startExperiment",
     data |-> [configurationID |-> c, dataAquisitionInterval |-> interval]]

\* a running experiment of two locations at duration d, sampled every
\* interval seconds, each buffer holding data, with the snapshot
\* start_experiment has written; readings is what read_ph can give
Running(f, d, data, interval, readings) ==
    /\ \E m1, m2 \in Modes : config = TwoLocationsTree(m1, m2)
    /\ disk = config
    /\ device_handler = config
    /\ connected = TRUE
    /\ focus = f
    /\ handler = "idle"
    /\ prev = config
    /\ lastCmd = NoCmd
    /\ result = "none"
    /\ emitted = <<>>
    /\ controllers = [j \in 1..2 |-> Registered(config.configurations[1].locations[j])]
    /\ is_running = TRUE
    /\ dataAquisitionInterval = interval
    /\ loop = << [LoopThread("iterate", 1) EXCEPT !.n = 2, !.i = 1] >>
    /\ decision = NoDecision
    /\ workers = <<>>
    /\ gpio_lock = 0
    /\ pins = [p \in PumpPins |-> 1]
    /\ chip = "open"
    /\ flags = [i \in 1..2 |-> NoFlags]
    /\ probe = readings
    /\ experiment_data =
           [duration |-> d, configurationID |-> "c1", status |-> "ready",
            locations |-> [j \in 1..2 |->
                [id |-> config.configurations[1].locations[j].id,
                 data |-> data]],
            logs |-> <<>>]
    /\ timer = [running |-> TRUE, alive |-> 1, saving |-> FALSE]
    /\ phase = "running"
    /\ command = StartCommand("c1", interval) @@ [result |-> "ok"]
    /\ outbox = Outbox(<<>>)
    /\ backup_dir = TRUE
    /\ snapshots = {[InitialExperimentData EXCEPT !.configurationID = "c1"]}
    /\ connect_result = "none"

InitCtl == Running("none", 1, << [x |-> 1, y |-> Reading(690)] >>, 5, Readings)

LoopFrame == UNCHANGED <<cfgVars, device_handler, timer, phase, command, backup_dir,
                        snapshots,
                        connect_result>>
WorkerFrame == UNCHANGED <<cfgVars, device_handler, experiment_data, timer, phase, command,
                          backup_dir, snapshots, connect_result>>

Loop == \E k \in 1..Len(loop) : (LoopIteration(k) \/ LoopTop(k)) /\ LoopFrame

Start == \E w \in 1..Len(workers) : WorkerStart(w) /\ WorkerFrame
Acquire == \E w \in 1..Len(workers) : WorkerAcquire(w) /\ WorkerFrame
WriteOn == \E w \in 1..Len(workers) : WorkerWriteOn(w) /\ WorkerFrame
WriteOff == \E w \in 1..Len(workers) : WorkerWriteOff(w) /\ WorkerFrame
Finish == \E w \in 1..Len(workers) : WorkerFinish(w) /\ WorkerFrame
WaitRaises == \E w \in 1..Len(workers) : WorkerWaitRaises(w) /\ WorkerFrame

Timer ==
    TimerTick /\ UNCHANGED <<cfgVars, ctlVars, device_handler, phase, command, connect_result>>

NextCtl == Loop \/ Timer \/ Start \/ Acquire \/ WriteOn \/ WriteOff \/ Finish

SpecCtl == InitCtl /\ [][NextCtl]_vars

\* the same, with a timed wait that can raise
NextCtlFault == NextCtl \/ WaitRaises

SpecCtlFault == InitCtl /\ [][NextCtlFault]_vars

\* the same loop and timer, sampling every second, two seconds before the
\* end of the first snapshot period: the buffers hold the samples of the
\* seconds before, and every reading calls for the alkaline pump
Samples(d) == [j \in 1..d |-> [x |-> j - 1, y |-> Reading(690)]]

InitSnap ==
    /\ Running("snapshot", SnapshotPeriod - 2, Samples(SnapshotPeriod - 2), 1,
               {Reading(600)})
    /\ config = TwoLocationsTree("auto", "auto")

SpecSnap == InitSnap /\ [][NextCtl]_vars

----------------------------------------------------------------------------
(* experiment.py and app.py: the lifecycle commands.  Each is one call of   *)
(* _receive_command; an exception is caught there and reported.             *)

ErrorReport(msg) == [channel |-> "error", data |-> msg, sent |-> connected]

Received(cmd, res) == cmd @@ [result |-> res]

\* gpio_claim_output and gpiochip_close on a closed chip: lgpio raises, the
\* mock returns -1
ClosedChipOutcomes == IF chip = "closed" THEN {"raised", "returned"} ELSE {"returned"}

RECURSIVE FirstWithoutSensor(_, _)
FirstWithoutSensor(locations, j) ==
    IF j > Len(locations) THEN 0
    ELSE IF locations[j].sensors = <<>> THEN j
    ELSE FirstWithoutSensor(locations, j + 1)

\* register_sensors: the controllers appended before the first location whose
\* sensor list is empty (IndexError), all of them when there is none; on a
\* closed chip init_gpio of the first controller may raise
register_sensors(locations, o) ==
    LET bad == FirstWithoutSensor(locations, 1)
        n == IF o = "raised" /\ Len(locations) > 0 /\ bad # 1 THEN 0
             ELSE IF bad = 0 THEN Len(locations) ELSE bad - 1
    IN  [raised |-> n < Len(locations),
         added |-> [j \in 1..n |-> Registered(locations[j])]]

\* init_gpio of the controllers made: both pump pins are claimed at level 1
\* when the chip is open
ClaimedPins(added) ==
    IF chip = "closed" THEN {}
    ELSE UNION { {added[j].alkaline_pump_pin, added[j].acidic_pump_pin} :
                   j \in 1..Len(added) }

\* SensorManager.start: the first interval given is kept
StartedLoop(interval) ==
    /\ dataAquisitionInterval' =
           IF dataAquisitionInterval = 0 THEN interval ELSE dataAquisitionInterval
    /\ is_running' = TRUE
    /\ loop' = Insert(LoopThread("new", 0), loop)

\* IntervalTimer.start and stop; stop joins the thread
TimerStarted == [running |-> TRUE, alive |-> timer.alive + 1, saving |-> timer.saving]
TimerStopped_KeepsRunning ==
    [running |-> TRUE, alive |-> timer.alive, saving |-> timer.saving]

TimerStopped ==
    [running |-> FALSE, alive |-> IF timer.alive > 0 THEN timer.alive - 1 ELSE 0,
     saving |-> timer.saving]

start_experiment(cmd) ==
    LET data == cmd.data
        r == get_experiment_locations(data.configurationID)
        exp1 == update_experimetal_data(
                    [experiment_data EXCEPT !.configurationID = data.configurationID])
    IN  /\ handler = "idle"
        /\ Len(loop) < MaxLoops
        /\ backup_dir' = TRUE
        /\ snapshots' = IF ~r.raised /\ exp1.saved THEN snapshots \cup {exp1.snapshot}
                        ELSE snapshots
        /\ IF r.raised \/ exp1.raised
           THEN /\ command' = Received(cmd, "error")
                /\ outbox' = Outbox(<< ErrorReport("No config or more than one config found") >>)
                /\ UNCHANGED <<ctlVars, experiment_data, timer, phase>>
           ELSE \E o \in ClosedChipOutcomes :
                   LET reg == register_sensors(r.locations, o)
                       claimed == ClaimedPins(reg.added)
                   IN  /\ controllers' = controllers \o reg.added
                       /\ pins' = [q \in DOMAIN pins \cup claimed |->
                                      IF q \in claimed THEN 1 ELSE pins[q]]
                       /\ flags' = [j \in 1..Max(Len(flags), Len(controllers')) |->
                                      IF j > Len(controllers) /\ j <= Len(controllers')
                                      THEN NoFlags ELSE flags[j]]
                       /\ UNCHANGED <<decision, workers, gpio_lock, chip, probe>>
                       /\ IF reg.raised
                          THEN /\ experiment_data' = exp1.exp
                               /\ command' = Received(cmd, "error")
                               /\ outbox' = Outbox(<< ErrorReport("register_sensors") >>)
                               /\ UNCHANGED <<is_running, dataAquisitionInterval, loop,
                                              timer, phase>>
                          ELSE /\ StartedLoop(data.dataAquisitionInterval)
                               /\ experiment_data' = reset_location_data(exp1.exp).exp
                               /\ timer' = TimerStarted
                               /\ command' = Received(cmd, "ok")
                               /\ phase' = "running"
                               /\ UNCHANGED outbox

pause_experiment(cmd) ==
    /\ handler = "idle"
    /\ timer' = TimerStopped
    /\ is_running' = FALSE
    /\ command' = Received(cmd, "ok")
    /\ phase' = "paused"
    /\ UNCHANGED <<controllers, dataAquisitionInterval, loop, decision, workers,
                   gpio_lock, pins, chip, flags, probe, experiment_data, outbox,
                   backup_dir, snapshots>>

resume_experiment_Resets(cmd) ==
    /\ handler = "idle"
    /\ Len(loop) < MaxLoops
    /\ timer' = TimerStarted
    /\ StartedLoop(cmd.data.dataAquisitionInterval)
    /\ experiment_data' = reset_location_data(experiment_data).exp
    /\ command' = Received(cmd, "ok")
    /\ phase' = "running"
    /\ UNCHANGED <<controllers, decision, workers, gpio_lock, pins, chip, flags, probe,
                   outbox, backup_dir, snapshots>>

resume_experiment(cmd) ==
    /\ handler = "idle"
    /\ Len(loop) < MaxLoops
    /\ timer' = TimerStarted
    /\ StartedLoop(cmd.data.dataAquisitionInterval)
    /\ command' = Received(cmd, "ok")
    /\ phase' = "running"
    /\ UNCHANGED <<controllers, decision, workers, gpio_lock, pins, chip, flags, probe,
                   experiment_data, outbox, backup_dir, snapshots>>

\* stop_experiment: the reset is not reached when gpiochip_close raises
stop_experiment(cmd) ==
    /\ handler = "idle"
    /\ timer' = TimerStopped
    /\ is_running' = FALSE
    /\ controllers' = <<>>
    /\ chip' = "closed"
    /\ \E o \in ClosedChipOutcomes :
          IF o = "raised"
          THEN /\ command' = Received(cmd, "error")
               /\ outbox' = Outbox(<< ErrorReport("gpiochip_close") >>)
               /\ UNCHANGED <<experiment_data, phase, backup_dir, snapshots>>
          ELSE /\ experiment_data' = InitialExperimentData
               /\ command' = Received(cmd, "ok")
               /\ phase' = "ready"
               /\ backup_dir' = FALSE
               /\ snapshots' = {}
               /\ UNCHANGED outbox
    /\ UNCHANGED <<dataAquisitionInterval, loop, decision, workers, gpio_lock, pins,
                   flags, probe>>

\* sio.emit of _handle_connect, made right after connected is set
SocketEvent(channel) == [channel |-> channel, data |-> <<>>, sent |-> TRUE]

\* _handle_connect: connected is set, the client registers and sends its
\* configuration tree; the call of experiment_handler.is_experiment_ongoing,
\* a method ExperimentHandler does not have, raises AttributeError, so the
\* branch that would read the backup (get_full_backup_data, which
\* DataBackupHandler does not have either) and emit
\* get_ongoing_experiment_data is never entered
_handle_connect ==
    /\ ~connected
    /\ connected' = TRUE
    /\ outbox' = [connected |-> TRUE,
                  events |-> << SocketEvent("register_client"),
                                SocketEvent("get_rpi_config") >>]
    /\ connect_result' = "raised"
    /\ UNCHANGED <<config, disk, focus, handler, prev, lastCmd, result, emitted>>

_handle_disconnect ==
    /\ connected
    /\ connected' = FALSE
    /\ UNCHANGED <<config, disk, focus, handler, prev, lastCmd, result, emitted>>
    /\ UNCHANGED <<outbox, connect_result>>

----------------------------------------------------------------------------
(* The experiment lifecycle.  A run follows one supervisor:                 *)
(*   "lifecycle"  one experiment, paused and resumed, stopped at any time;  *)
(*   "restart"    experiments started and stopped one after the other;      *)
(*   "actuation"  one experiment on a probe that reads below the band,      *)
(*                paused or stopped while a pump is driven;                 *)
(*   "transport"  one experiment while the socket goes down and comes back, *)
(*                on a probe that reads in band or gives nothing;           *)
(*   "store"      the list of configurations is edited, then one experiment *)
(*                is started.                                               *)

\* a tree in which two configurations have the id "c2"
DuplicateTree ==
    [EmptyTree EXCEPT !["configurations"] =
        << ConfigurationData("c2", <<LocationData("l1", <<SensorData("s1")>>)>>),
           ConfigurationData("c2", <<>>) >>]

LifecycleCommand(name) == [cmd |-> name, data |-> [dataAquisitionInterval |-> 2]]

\* the sender of the restart profile gives the first experiment interval 2
\* and the later ones interval 1
StartCommands(f) ==
    IF f = "store" THEN { StartCommand(c, 1) : c \in {"c1", "c2", "c3"} }
    ELSE IF f = "lifecycle" THEN { StartCommand("c2", 2) }
    ELSE IF f = "restart"
         THEN { StartCommand("c2", IF dataAquisitionInterval = 0 THEN 2 ELSE 1) }
    ELSE { StartCommand("c2", 1) }

StoreCommands ==
    { Cmd("configuration", "create", ConfigurationData("c3", <<>>)),
      Cmd("configuration", "delete", [configurationID |-> "c2"]) }

Probes(f) ==
    IF f = "lifecycle" THEN {{Reading(690)}}
    ELSE IF f = "actuation" THEN {{Reading(600)}}
    ELSE IF f = "transport" THEN {{Reading(690)}, {NoReading}}
    ELSE {{Reading(690)}}

InitExp ==
    /\ focus \in {"lifecycle", "restart", "actuation", "transport", "store"}
    /\ device_handler \in (IF focus = "store" THEN {TwoConfigurationsTree, DuplicateTree}
                           ELSE {TwoConfigurationsTree})
    /\ config = device_handler
    /\ disk = config
    /\ connected \in (IF focus = "transport" THEN BOOLEAN ELSE {TRUE})
    /\ handler = "idle"
    /\ prev = config
    /\ lastCmd = NoCmd
    /\ result = "none"
    /\ emitted = <<>>
    /\ CtlIdle
    /\ probe \in Probes(focus)
    /\ ExpIdle

CommandFrame == UNCHANGED <<cfgVars, device_handler, connect_result>>

StartExperiment ==
    /\ phase = "ready"
    /\ focus # "restart" => loop = <<>>
    /\ \E cmd \in StartCommands(focus) : start_experiment(cmd)
    /\ CommandFrame

PauseExperiment ==
    /\ focus \in {"lifecycle", "actuation"}
    /\ phase = "running"
    /\ pause_experiment(LifecycleCommand("pauseExperiment"))
    /\ CommandFrame

ResumeExperiment ==
    /\ focus = "lifecycle"
    /\ phase = "paused"
    /\ resume_experiment(LifecycleCommand("resumeExperiment"))
    /\ CommandFrame

StopExperiment ==
    /\ stop_experiment(LifecycleCommand("stopExperiment"))
    /\ CommandFrame

ConnectFrame ==
    UNCHANGED <<ctlVars, device_handler, experiment_data, timer, phase, command, backup_dir,
                snapshots>>

Connect == focus = "transport" /\ _handle_connect /\ ConnectFrame
Disconnect == focus = "transport" /\ _handle_disconnect /\ ConnectFrame

StoreUpdate ==
    /\ focus = "store"
    /\ \E cmd \in StoreCommands : _handle_config_update(cmd)
    /\ UNCHANGED <<ctlVars, expVars>>

NextExp ==
    \/ StartExperiment \/ PauseExperiment \/ ResumeExperiment \/ StopExperiment
    \/ Connect \/ Disconnect \/ StoreUpdate \/ Return
    \/ Loop \/ Timer \/ Start \/ Acquire \/ WriteOn \/ WriteOff \/ Finish

SpecExp == InitExp /\ [][NextExp]_vars

----------------------------------------------------------------------------
(* controllers.py: the manual toggle, the handler of the "toggle_pump"     *)
(* event; the socket client runs it in its own thread                      *)

\* PHController.toggle_pump with an overide_status: the pin, the level written
\* and the status returned (the flag of the pump after the toggle); the
\* alkaline branch tests is_pumping_acid, False on a new controller
toggle_pump(c, pump, overide_status) ==
    IF pump = "acidic"
    THEN [pin |-> c.acidic_pump_pin, level |-> IF overide_status THEN 0 ELSE 1,
          status |-> overide_status]
    ELSE [pin |-> c.alkaline_pump_pin, level |-> 0, status |-> overide_status]

\* SensorManager._toggle_pump: a new PHController for the selected location
\* (its init_gpio claims both pump pins at level 1), then toggle_pump, which
\* writes the pin and sends a log; neither takes gpio_lock
_toggle_pump(pump_data) ==
    LET loc == pump_data.selectedLocation
        sensor == PHController(loc.name, loc.sensors[1])
        status == ~pump_data.isPumping
        t == toggle_pump(sensor, pump_data.pump, status)
        claimed == {sensor.alkaline_pump_pin, sensor.acidic_pump_pin}
    IN  /\ \E o \in ClosedChipOutcomes :
              /\ pins' = IF chip = "closed" THEN pins
                         ELSE [q \in DOMAIN pins \cup claimed |->
                                  IF q = t.pin THEN t.level
                                  ELSE IF q \in claimed THEN 1 ELSE pins[q]]
              /\ outbox' = IF o = "raised" THEN outbox
                           ELSE Outbox(<< send_log_to_client("info", loc.name) >>)
        /\ UNCHANGED <<controllers, is_running, dataAquisitionInterval, loop, decision,
                       workers, gpio_lock, chip, flags, probe>>

\* the toggles sent: both pumps of the first location, on and off
PumpData ==
    { [selectedLocation |-> config.configurations[1].locations[1], pump |-> p,
       isPumping |-> b] : p \in {"acidic", "alkaline"}, b \in BOOLEAN }

Toggle == \E pump_data \in PumpData : _toggle_pump(pump_data) /\ WorkerFrame

NextCtlToggle == NextCtl \/ Toggle

SpecCtlToggle == InitCtl /\ [][NextCtlToggle]_vars

----------------------------------------------------------------------------
(* Claims about the configuration protocol.  They are read in the state a  *)
(* handler leaves (handler = "done"): prev is the tree it was entered      *)
(* with, config the tree it left, emitted what it sent.                    *)

IsCommand(cmd, context, operation) ==
    /\ required_fields \subseteq DOMAIN cmd
    /\ cmd.context = context
    /\ cmd.operation = operation

\* C1: the device never holds more than 3 configurations, and a
\* configuration|create issued when it holds 3 is answered with an error and
\* leaves the 3 configurations as they were.
C1_ConfigurationCap ==
    /\ Len(config.configurations) <= 3
    /\ (/\ handler = "done"
        /\ IsCommand(lastCmd, "configuration", "create")
        /\ Len(prev.configurations) = 3)
       => /\ result = "error"
          /\ Len(emitted) = 1 /\ emitted[1].event = "error"
          /\ config.configurations = prev.configurations

C1_Witness ==
    /\ handler = "done"
    /\ IsCommand(lastCmd, "configuration", "create")
    /\ Len(prev.configurations) = 3
    /\ result = "error"

\* C2: after an update command, the device record and every configuration,
\* location and sensor keep the id and the createdAt they had, and every
\* record at or above the level the command names keeps its child list, also
\* when the payload carries id, createdAt or a child list.
C2_UpdateKeepsIdentity ==
    (handler = "done" /\ required_fields \subseteq DOMAIN lastCmd
        /\ lastCmd.context \in context_values /\ lastCmd.operation = "update")
    => LET ctx == lastCmd.context
           P == prev.configurations
           C == config.configurations
       IN  /\ config.id = prev.id
           /\ config.createdAt = prev.createdAt
           /\ ctx = "device" => C = P
           /\ Len(C) = Len(P)
           /\ \A i \in 1..Len(P) :
               /\ C[i].id = P[i].id
               /\ C[i].createdAt = P[i].createdAt
               /\ ctx \in {"device", "configuration"} => C[i].locations = P[i].locations
               /\ Len(C[i].locations) = Len(P[i].locations)
               /\ \A j \in 1..Len(P[i].locations) :
                   LET pl == P[i].locations[j]
                       cl == C[i].locations[j]
                   IN  /\ cl.id = pl.id
                       /\ cl.createdAt = pl.createdAt
                       /\ ctx # "sensor" => cl.sensors = pl.sensors
                       /\ Len(cl.sensors) = Len(pl.sensors)
                       /\ \A k \in 1..Len(pl.sensors) :
                           /\ cl.sensors[k].id = pl.sensors[k].id
                           /\ cl.sensors[k].createdAt = pl.sensors[k].createdAt

\* an update whose payload carries id and createdAt has changed a record
C2_Witness ==
    /\ handler = "done"
    /\ IsCommand(lastCmd, "sensor", "update")
    /\ {"id", "createdAt"} \subseteq DOMAIN lastCmd.data
    /\ result = "ok"
    /\ config # prev

\* C3: every sensor stored in the tree has margin in (0,1], maxValveTimeOpen
\* in (1,300], targetPh in [1,14] and mode acidic, alkaline or auto.
C3_StoredSensorsInRange ==
    \A i \in 1..Len(config.configurations) :
        \A j \in 1..Len(config.configurations[i].locations) :
            \A k \in 1..Len(config.configurations[i].locations[j].sensors) :
                LET s == config.configurations[i].locations[j].sensors[k]
                IN  /\ {"margin", "maxValveTimeOpen", "targetPh", "mode"} \subseteq DOMAIN s
                    /\ s.margin > 0 /\ s.margin <= 100
                    /\ s.maxValveTimeOpen > 100 /\ s.maxValveTimeOpen <= 30000
                    /\ s.targetPh >= 100 /\ s.targetPh <= 1400
                    /\ s.mode \in {"acidic", "alkaline", "auto"}

\* a sensor|create with targetPh 14.5 has been accepted and stored
C3_Witness ==
    /\ handler = "done"
    /\ IsCommand(lastCmd, "sensor", "create")
    /\ "targetPh" \in DOMAIN lastCmd.data
    /\ lastCmd.data.targetPh = 1450
    /\ result = "ok"
    /\ config # prev

\* C4: a command answered with an error leaves the in-memory tree as it was
\* and emits no refresh_device_data.
C4_ErrorLeavesTree ==
    (handler = "done" /\ result = "error")
    => /\ config = prev
       /\ \A n \in 1..Len(emitted) : emitted[n].event # "refresh_device_data"

\* the positions <<i, j, k>> of the sensors a sensor command names
Named(tree, c, l, s) ==
    { p \in (1..Len(tree.configurations)) \X (1..(MaxLocations + 1)) \X (1..(MaxSensors + 1)) :
        /\ tree.configurations[p[1]].id = c
        /\ p[2] <= Len(tree.configurations[p[1]].locations)
        /\ tree.configurations[p[1]].locations[p[2]].id = l
        /\ p[3] <= Len(tree.configurations[p[1]].locations[p[2]].sensors)
        /\ tree.configurations[p[1]].locations[p[2]].sensors[p[3]].id = s }

\* C5: a sensor|delete naming a configuration, a location and a sensor, on a
\* tree that holds exactly one such sensor, leaves no sensor of that id in
\* that location and emits exactly one refresh_device_data carrying the new
\* tree.
C5_SensorDelete ==
    (/\ handler = "done"
     /\ IsCommand(lastCmd, "sensor", "delete")
     /\ {"configurationID", "locationID", "sensorID"} \subseteq DOMAIN lastCmd.data
     /\ Cardinality(Named(prev, lastCmd.data.configurationID,
                          lastCmd.data.locationID, lastCmd.data.sensorID)) = 1)
    => /\ Named(config, lastCmd.data.configurationID,
                lastCmd.data.locationID, lastCmd.data.sensorID) = {}
       /\ emitted = <<RefreshEvent(config)>>

C5_Witness ==
    /\ handler = "done"
    /\ IsCommand(lastCmd, "sensor", "delete")
    /\ {"configurationID", "locationID", "sensorID"} \subseteq DOMAIN lastCmd.data
    /\ Cardinality(Named(prev, lastCmd.data.configurationID,
                         lastCmd.data.locationID, lastCmd.data.sensorID)) = 1
    /\ result = "ok"

----------------------------------------------------------------------------
(* Claims about the control loop, under SpecCtl unless said otherwise. *)

Decided == decision.ctl # 0 /\ decision.read.ok

InBand(c, ph) == Abs(ph - c.target_ph) <= c.margin

\* C6: in mode auto, a reading outside the margin band picks the alkaline
\* pump exactly when current < target and the acidic pump exactly when
\* current > target, and a worker is started; a reading within the band
\* picks no pump and starts no worker.
C6_AutoDecision ==
    (Decided /\ controllers[decision.ctl].mode = "auto") =>
        LET c == controllers[decision.ctl]
            ph == decision.read.ph
        IN  IF InBand(c, ph)
                THEN decision.pump = "none" /\ ~decision.started /\ ~decision.raised
            ELSE /\ decision.pump = "alkaline" <=> ph < c.target_ph
                 /\ decision.pump = "acidic" <=> ph > c.target_ph
                 /\ decision.started
                 /\ workers[Len(workers)].ctl = decision.ctl
                 /\ workers[Len(workers)].pump = decision.pump

\* an auto controller has picked the alkaline pump for a low reading after an
\* earlier decision picked the acidic pump
C6_Witness ==
    /\ Decided
    /\ controllers[decision.ctl].mode = "auto"
    /\ decision.read.ph < controllers[decision.ctl].target_ph
    /\ decision.pump = "alkaline"
    /\ decision.started
    /\ \E w \in 1..Len(workers) : workers[w].pump = "acidic"

ModeExcludes(c, ph) ==
    \/ c.mode = "acidic" /\ ph < c.target_ph
    \/ c.mode = "alkaline" /\ ph > c.target_ph

\* C7: a reading outside the band whose correction the mode excludes makes
\* the decision step start nothing and return normally, so that the loop
\* goes on.
C7_ExcludedCorrectionReturns ==
    (/\ Decided
     /\ ~InBand(controllers[decision.ctl], decision.read.ph)
     /\ ModeExcludes(controllers[decision.ctl], decision.read.ph)) =>
        /\ ~decision.started
        /\ ~decision.raised
        /\ \A k \in 1..Len(loop) : loop[k].pc # "aborted"
        /\ chip = "open"

C9_CleanupAfterException ==
    \A w \in 1..Len(workers) :
        (workers[w].pc = "failed" /\ workers[w].wrote) =>
            workers[w].left = 1 /\ ~workers[w].endFlag

DrivesOn(w) == workers[w].pc = "pumping"

\* C10: at most one worker is between the write that turns its pin on and
\* the write that turns it off, that worker holds gpio_lock, and no pin but
\* one is at the on level.
C10_OneActuation ==
    /\ \A w1, w2 \in 1..Len(workers) :
           (DrivesOn(w1) /\ DrivesOn(w2)) => w1 = w2
    /\ \A w \in 1..Len(workers) : DrivesOn(w) => gpio_lock = w
    /\ Cardinality({p \in DOMAIN pins : pins[p] = 0}) <= 1

\* an alkaline worker drives its pin on while an acidic worker of another
\* location waits for the lock
C10_Witness ==
    \E w1, w2 \in 1..Len(workers) :
        /\ DrivesOn(w1)
        /\ pins[workers[w1].pump_pin] = 0
        /\ workers[w1].pump = "alkaline"
        /\ workers[w2].pc = "waitlock"
        /\ workers[w2].pump = "acidic"
        /\ workers[w2].ctl # workers[w1].ctl

----------------------------------------------------------------------------
(* Claims about the experiment lifecycle, read under SpecExp unless said     *)
(* otherwise.                                                                *)

Ended(w) == workers[w].pc \in {"closing", "done", "failed"}

\* C11: an actuation in flight when pauseExperiment or stopExperiment is
\* processed runs to completion: a worker that has written its pin on and is
\* past activate_pump has written the pin back off (level 1).
C11_InFlightCompletes ==
    \A w \in 1..Len(workers) :
        (workers[w].wrote /\ Ended(w)) => workers[w].left = 1

\* the same, for the actuations that no stopExperiment has met: pause alone
\* lets them complete
C11_PauseLetsComplete ==
    \A w \in 1..Len(workers) :
        (workers[w].wrote /\ Ended(w) /\ chip = "open") => workers[w].left = 1

\* a worker that wrote its pin on while the experiment ran has ended after a
\* pauseExperiment, the pin written back off
C11_PauseWitness ==
    \E w \in 1..Len(workers) :
        /\ workers[w].wrote /\ Ended(w) /\ workers[w].left = 1
        /\ phase = "paused"
        /\ chip = "open"

\* the tick of thread k is over: it sleeps, or it has left the loop by the
\* except clause
TickOver(k) == loop[k].pc \in {"sleep", "aborted"}

Due(k) ==
    { j \in 1..loop[k].n :
        loop[k].time_ellapsed % controllers[j].phMonitorFrequency = 0 }

\* C12 (under SpecCtl): on tick t every registered controller is read iff
\* t mod dataAquisitionInterval = 0 and runs adjust_ph iff
\* t mod phMonitorFrequency = 0; the batch is sent once on a tick with
\* readings and not at all on a tick without.
C12_TickCadence ==
    \A k \in 1..Len(loop) :
        TickOver(k) =>
            /\ loop[k].adjusted = Due(k)
            /\ Len(loop[k].send_data) =
                   (IF Acquires(loop[k].time_ellapsed) THEN loop[k].n ELSE 0)
            /\ loop[k].sends = (IF Len(loop[k].send_data) > 0 THEN 1 ELSE 0)

\* the same on the ticks that no exception has cut short
C12_CompletedTick ==
    \A k \in 1..Len(loop) :
        loop[k].pc = "sleep" =>
            /\ loop[k].adjusted = Due(k)
            /\ Len(loop[k].send_data) =
                   (IF Acquires(loop[k].time_ellapsed) THEN loop[k].n ELSE 0)
            /\ loop[k].sends = (IF Len(loop[k].send_data) > 0 THEN 1 ELSE 0)

\* the sensor_data events among those of the last emitting step
Batches == { j \in 1..Len(outbox.events) : outbox.events[j].channel = "sensor_data" }

\* the only run_controllers thread there has been sleeps after a tick on
\* which it sent its batch, and that batch is what was emitted last
JustSent ==
    /\ Len(loop) = 1
    /\ loop[1].pc = "sleep"
    /\ loop[1].sends = 1
    /\ Batches # {}

\* C13: the batch produced on tick t of the tick loop is stamped x = t.
C13_StampIsTick ==
    JustSent =>
        \A j \in Batches :
            \A i \in 1..Len(outbox.events[j].data) :
                outbox.events[j].data[i].x = loop[1].time_ellapsed

\* the command processed last
Processed(name) == command.cmd = name

\* C14: once stopExperiment has been processed, and until the next command,
\* the experiment data has its initial shape (duration 0, no locations, no
\* logs, status ready), whatever the state before.
C14_StopResets ==
    Processed("stopExperiment") => experiment_data = InitialExperimentData

\* the same for the stops whose gpiochip_close returns
C14_ReturnedStopResets ==
    (Processed("stopExperiment") /\ command.result = "ok") =>
        experiment_data = InitialExperimentData

\* a stop that returned, met after a paused experiment with data
C14_ReturnedWitness ==
    /\ Processed("stopExperiment")
    /\ command.result = "ok"
    /\ experiment_data = InitialExperimentData
    /\ Len(loop) > 0

IsPrefix(s, t) == Len(s) <= Len(t) /\ SubSeq(t, 1, Len(s)) = s

\* nothing the experiment has accumulated is lost by the step
Preserved ==
    /\ experiment_data'.duration = experiment_data.duration
    /\ Len(experiment_data'.locations) = Len(experiment_data.locations)
    /\ \A j \in 1..Len(experiment_data.locations) :
           /\ experiment_data'.locations[j].id = experiment_data.locations[j].id
           /\ IsPrefix(experiment_data.locations[j].data,
                       experiment_data'.locations[j].data)

C16_DurationSteps ==
    [][/\ (phase = "running" /\ phase' = "running") =>
              \/ experiment_data'.duration = experiment_data.duration
              \/ experiment_data'.duration = experiment_data.duration + 1
       /\ (phase = "paused" /\ phase' # "ready") =>
              experiment_data'.duration = experiment_data.duration]_vars

\* a paused experiment whose timer has ticked before the pause
C16_Witness ==
    /\ Processed("pauseExperiment")
    /\ phase = "paused"
    /\ ~timer.running
    /\ experiment_data.duration > 0

\* C17: the status of the experiment is "running" after a startExperiment
\* that succeeded and after resumeExperiment, is not "running" after
\* pauseExperiment, and is "ready" after stopExperiment.
C17_StatusFollowsLifecycle ==
    /\ (Processed("startExperiment") /\ command.result = "ok") =>
           experiment_data.status = "running"
    /\ Processed("resumeExperiment") => experiment_data.status = "running"
    /\ Processed("pauseExperiment") => experiment_data.status # "running"
    /\ (Processed("stopExperiment") /\ command.result = "ok") =>
           experiment_data.status = "ready"

\* what the code does keep: the status never leaves "ready"
C17_StatusIsReady == experiment_data.status = "ready"

\* the configurations of the store startExperiment reads that have the id
Matches(id) ==
    Len(SelectSeq(device_handler.configurations, LAMBDA x : HasId(x, id)))

\* the step processes a startExperiment command
StartProcessed ==
    /\ phase = "ready"
    /\ command' # command
    /\ command'.cmd = "startExperiment"

Reported(box) ==
    \E j \in 1..Len(box.events) : box.events[j].channel = "error" /\ box.events[j].sent

\* C18: a startExperiment whose configurationID matches no configuration or
\* more than one fails with a reported error and starts nothing: no
\* controller is registered, no run_controllers thread and no timer is
\* started, and the experiment data is unchanged.
C18_NoUniqueMatchStartsNothing ==
    [][(StartProcessed /\ Matches(command'.data.configurationID) # 1) =>
           /\ command'.result = "error"
           /\ Reported(outbox')
           /\ controllers' = controllers
           /\ loop' = loop
           /\ is_running' = is_running
           /\ timer' = timer
           /\ experiment_data' = experiment_data]_vars

\* a startExperiment naming an id that two configurations have has failed
C18_Witness ==
    /\ Processed("startExperiment")
    /\ command.result = "error"
    /\ Matches(command.data.configurationID) = 2
    /\ Reported(outbox)
    /\ loop = <<>>
    /\ ~timer.running

\* a startExperiment naming an id that no configuration has has failed
C18_WitnessNone ==
    /\ Processed("startExperiment")
    /\ command.result = "error"
    /\ Matches(command.data.configurationID) = 0
    /\ Reported(outbox)
    /\ loop = <<>>

\* the configurations of the store the config commands change that have the id
StoreMatches(id) ==
    SelectSeq(config.configurations, LAMBDA x : HasId(x, id))

StoredLocationIds(locations) == [j \in 1..Len(locations) |-> locations[j].id]

\* C19: startExperiment resolves its locations from the store that the config
\* commands change: it fails when that store has no configuration of the id,
\* and when it succeeds the location buffers are those of the locations that
\* store now holds for the id.
C19_StartReadsTheStore ==
    [][StartProcessed =>
           LET m == StoreMatches(command'.data.configurationID)
           IN  /\ Len(m) = 0 => command'.result = "error"
               /\ (Len(m) = 1 /\ command'.result = "ok") =>
                      StoredLocationIds(experiment_data'.locations) = StoredLocationIds(m[1].locations)]_vars

\* what the code does: the outcome follows the copy of the store loaded when
\* experiment.py was imported
C19_StartReadsTheCopy ==
    [][StartProcessed =>
           (Matches(command'.data.configurationID) # 1 => command'.result = "error")]_vars

\* a startExperiment naming a configuration that a configuration|delete has
\* removed from the store has succeeded
C19_DeletedStillStarts ==
    /\ Processed("startExperiment")
    /\ command.result = "ok"
    /\ StoreMatches(command.data.configurationID) = <<>>
    /\ lastCmd.operation = "delete"

Gated == {"sensor_data", "update_experiment_status", "update_experiment_log"}

\* the events of the three channels among those of the last emitting step
GatedEvents == { j \in 1..Len(outbox.events) : outbox.events[j].channel \in Gated }

\* C20: a sensor_data, update_experiment_status or update_experiment_log event
\* is not sent when it is produced while disconnected, and is sent at once
\* when it is produced while connected.
C20_SentIffConnected ==
    \A j \in GatedEvents : outbox.events[j].sent = outbox.connected

\* the half that holds: nothing of the three channels is sent while
\* disconnected
C20_NothingSentWhileDisconnected ==
    \A j \in GatedEvents : ~outbox.connected => ~outbox.events[j].sent

\* a batch produced while disconnected was not sent
C20_DisconnectedWitness ==
    \E j \in GatedEvents :
        /\ ~outbox.connected
        /\ outbox.events[j].channel = "sensor_data"
        /\ ~outbox.events[j].sent

\* the step is a _handle_connect
Reconnects == ~connected /\ connected'

\* C21: when the transport reconnects while an experiment is ongoing, the
\* snapshots of the run are read back and sent to the supervisor
\* (get_ongoing_experiment_data) and the connect handler returns normally.
C21_ReconnectReplays ==
    [][(Reconnects /\ phase # "ready") =>
           /\ connect_result' = "returned"
           /\ \E j \in 1..Len(outbox'.events) :
                  outbox'.events[j].channel = "get_ongoing_experiment_data"]_vars

\* what the handler does do on every connect: it registers and sends the tree
C21_ConnectRegisters ==
    [][Reconnects =>
           /\ outbox'.events[1].channel = "register_client"
           /\ outbox'.events[2].channel = "get_rpi_config"]_vars

\* a reconnect during a running experiment whose timer has ticked
C21_ReconnectedWhileRunning ==
    /\ connect_result = "raised"
    /\ phase = "running"
    /\ experiment_data.duration > 0
    /\ Len(outbox.events) > 0
    /\ outbox.events[1].channel = "register_client"

\* C22 (under Spec): the tree last written to the file equals the tree in
\* memory, after any sequence of config commands.
C22_PersistedEqualsMemory == disk = config

\* the same after the commands that are answered with the refreshed tree
C22_PersistedAfterSuccess ==
    (handler = "done" /\ result = "ok") => disk = config


Live(th) == th.pc \in {"new", "iterate", "sleep"}

LiveLoops == { k \in 1..Len(loop) : Live(loop[k]) }

\* C23 (under SpecExp): at any time at most one run_controllers thread is
\* alive, whatever start and resume commands were processed.
C23_AtMostOneLoop == Cardinality(LiveLoops) <= 1

\* two threads alive after a pause followed by a resume
C23_ResumedBesideThePausedLoop ==
    ~(focus = "lifecycle" /\ Processed("resumeExperiment")
        /\ Cardinality(LiveLoops) = 2)


\* C24 (under SpecExp): while the experiment of a processed startExperiment
\* runs, the loop samples at the dataAquisitionInterval of that command, also
\* when an earlier experiment was stopped with another interval.
C24_CadenceOfOwnStart ==
    (Processed("startExperiment") /\ command.result = "ok")
        => dataAquisitionInterval = command.data.dataAquisitionInterval

\* the first experiment of a process does sample at its own interval
C24_FirstStartSetsCadence ==
    [][(dataAquisitionInterval = 0 /\ StartProcessed /\ command'.result = "ok")
          => dataAquisitionInterval' = command'.data.dataAquisitionInterval]_vars

\* a second experiment that runs at the interval of the first
C24_SecondKeepsTheFirst ==
    ~(/\ Processed("startExperiment") /\ command.result = "ok"
      /\ phase = "running"
      /\ dataAquisitionInterval # command.data.dataAquisitionInterval)


Aborted == { k \in 1..Len(loop) : loop[k].pc = "aborted" }

\* a run_controllers thread leaves its loop by the except clause
Aborts == Cardinality(Aborted') > Cardinality(Aborted)

DeviceErrorLogs(box) ==
    { j \in 1..Len(box.events) :
        /\ box.events[j].channel = "update_experiment_log"
        /\ box.events[j].data = [type |-> "error", location |-> "Device"] }

\* C25 (under SpecExp): when an exception ends the tick loop, monitoring is
\* stopped: is_running is false and the duration timer no longer runs.
C25_AbortStopsMonitoring ==
    [][Aborts => (~is_running' /\ ~timer'.running)]_vars

\* the abort on an open chip does produce one error log for the device
C25_AbortLogsOnce ==
    [][(Aborts /\ chip = "open") => Cardinality(DeviceErrorLogs(outbox')) = 1]_vars

\* the timer advances duration after the loop has aborted
C25_DurationAdvancesAfterAbort ==
    [][(Aborted # {} /\ phase = "running" /\ phase' = "running")
          => experiment_data'.duration = experiment_data.duration]_vars

\* the abort on a chip already closed ends without the error log
C25_AbortWithoutLog ==
    [][Aborts => DeviceErrorLogs(outbox') # {}]_vars


\* C26 (under SpecExp): a decide step whose read_ph gave None returns without
\* raising, so that the loop is not left on that tick.
C26_FailedReadGoesOn ==
    (decision.ctl # 0 /\ ~decision.read.ok) => ~decision.raised

\* the loop left by its except clause on the tick of a failed read, with the
\* None sample already in the batch
C26_FailedReadAborts ==
    ~(\E k \in Aborted :
         /\ decision.ctl # 0 /\ ~decision.read.ok /\ decision.raised
         /\ loop[k].adjusted = {decision.ctl}
         /\ Len(loop[k].send_data) = 1
         /\ ~loop[k].send_data[1].y.ok)


InWindow(w) == workers[w].pc = "pumping"

\* C27 (under SpecCtlToggle): while an actuation worker is inside its timed
\* pump window, no step of another thread (a manual toggle in particular)
\* changes the level of a pump pin.
C27_NoWriteInsideWindow ==
    [][(\E w \in 1..Len(workers) : InWindow(w) /\ workers'[w].pc = "pumping")
          => pins' = pins]_vars

\* the writes of the actuation workers are made by the holder of gpio_lock
C27_WorkerWritesUnderLock ==
    [][(pins' # pins) => (gpio_lock # 0 /\ workers[gpio_lock].pc # workers'[gpio_lock].pc)]_vars

\* a manual toggle has driven the pin of a pumping worker back to 1
C27_ToggleClosesPumpingValve ==
    ~(\E w \in 1..Len(workers) :
         InWindow(w) /\ workers[w].wrote /\ PinLevel(workers[w].pump_pin) = 1)


NextTick(th) == IF th.pc = "new" THEN 0 ELSE th.time_ellapsed + 1

\* C28 (under SpecSnap, also under SpecExp): the tick loop never waits for actuation: whatever
\* the holder of gpio_lock and the state of the workers, a thread inside a
\* tick can take its next controller, and a thread whose sleep is over can
\* begin its next tick (within the MaxWorkers and MaxTicks kept).
C28_LoopNeverBlocked ==
    \A k \in 1..Len(loop) :
        /\ (loop[k].pc = "iterate" /\ Len(workers) < MaxWorkers)
              => ENABLED (LoopIteration(k) /\ LoopFrame)
        /\ (loop[k].pc \in {"new", "sleep"} /\ NextTick(loop[k]) <= MaxTicks)
              => ENABLED (LoopTop(k) /\ LoopFrame)

\* a thread about to decide for a controller whose reading calls for a pump,
\* while a worker holds gpio_lock inside its pump window
C28_Witness ==
    /\ gpio_lock # 0
    /\ workers[gpio_lock].pc = "pumping"
    /\ Len(workers) < MaxWorkers
    /\ probe = {Reading(600)}
    /\ \E k \in 1..Len(loop) : loop[k].pc = "iterate" /\ loop[k].time_ellapsed >= 1


Cleared(exp) == \A j \in 1..Len(exp.locations) : exp.locations[j].data = <<>>

\* C29 (under SpecSnap): the step that brings duration to a multiple of the
\* snapshot period writes the whole experiment data, buffers included, as
\* one new snapshot, and the step of the timer that follows leaves every
\* location's buffer empty; no other step writes a snapshot.
C29_SnapshotAtPeriod ==
    [][/\ (experiment_data'.duration # experiment_data.duration
              /\ experiment_data'.duration % SnapshotPeriod = 0)
          => /\ snapshots' = snapshots \cup {experiment_data'}
             /\ experiment_data' = [experiment_data EXCEPT !.duration = @ + 1]
             /\ experiment_data' \notin snapshots
             /\ timer'.saving
       /\ (timer.saving /\ ~timer'.saving) => Cleared(experiment_data')
       /\ (experiment_data'.duration % SnapshotPeriod # 0
              \/ experiment_data'.duration = experiment_data.duration)
          => snapshots' = snapshots]_vars

\* duration 30 has been reached: the snapshot holds the samples of the
\* period and the buffers are empty
C29_Witness ==
    /\ experiment_data.duration = SnapshotPeriod
    /\ ~timer.saving
    /\ Cleared(experiment_data)
    /\ \E s \in snapshots : s.duration = SnapshotPeriod /\ ~Cleared(s)


\* C30 (under SpecSnap): while the timer thread is inside its update of the
\* experiment data (snapshot written, buffers not yet reset), no other thread
\* changes the experiment data.
C30_UpdateNotInterleaved ==
    [][(timer.saving /\ timer'.saving) => experiment_data' = experiment_data]_vars

\* a sample recorded by the loop between save_data and reset_location_data:
\* it is in no snapshot and the reset has removed it from the buffer
C30_SampleLost ==
    ~(/\ experiment_data.duration = SnapshotPeriod
      /\ ~timer.saving
      /\ Cleared(experiment_data)
      /\ \E k \in 1..Len(loop) : loop[k].sends > 0 /\ loop[k].pc = "sleep"
      /\ \A s \in snapshots :
            \A j \in 1..Len(s.locations) :
               \A n \in 1..Len(s.locations[j].data) :
                  s.locations[j].data[n].x # SnapshotPeriod)


LogEvents(box) ==
    { j \in 1..Len(box.events) : box.events[j].channel = "update_experiment_log" }

\* C31 (under SpecExp): a log entry handed to send_log_to_client is appended
\* to the logs of the experiment data: every log event of the last emitting
\* step is an entry of experiment_data.logs.
C31_LogsHoldRecorded ==
    \A j \in LogEvents(outbox) :
        \E n \in 1..Len(experiment_data.logs) :
            experiment_data.logs[n] = outbox.events[j].data

\* the logs list is never written: it is empty in every state
C31_LogsStayEmpty == experiment_data.logs = <<>>

\* a log entry sent to the supervisor while the logs list is empty
C31_SentNotRetained ==
    ~(\E j \in LogEvents(outbox) : outbox.events[j].sent /\ experiment_data.logs = <<>>)


\* a step of the handler of a toggle_pump event carrying pump_data
ToggleStep(pump_data) == _toggle_pump(pump_data) /\ WorkerFrame

PumpStatusReported(box, pump_data) ==
    \E j \in 1..Len(box.events) :
        /\ box.events[j].channel = "update_pump_status"
        /\ box.events[j].data.location = pump_data.selectedLocation.name
        /\ box.events[j].data.pump = pump_data.pump
        /\ box.events[j].data.status = ~pump_data.isPumping

\* C32 (under SpecCtlToggle): the handler of a toggle_pump request emits an
\* update_pump_status event carrying the location, the pump and the new
\* status.
C32_ToggleReports ==
    [][\A pump_data \in PumpData :
          ToggleStep(pump_data) => PumpStatusReported(outbox', pump_data)]_vars

\* what the handler does emit is the log of toggle_pump, and nothing else
C32_ToggleLogsOnly ==
    [][\A pump_data \in PumpData :
          ToggleStep(pump_data) =>
              /\ Len(outbox'.events) = 1
              /\ outbox'.events[1].channel = "update_experiment_log"
              /\ outbox'.events[1].data.location = pump_data.selectedLocation.name]_vars

Toggled(pump_data) ==
    toggle_pump(PHController(pump_data.selectedLocation.name,
                             pump_data.selectedLocation.sensors[1]),
                pump_data.pump, ~pump_data.isPumping)

\* C35 (under SpecCtlToggle): the level a manual toggle writes to the pump's
\* pin (on an open chip) agrees with the status it returns: 0 (on) exactly
\* when the status is true, 1 (off) exactly when it is false.
C35_LevelAgreesWithStatus ==
    [][\A pump_data \in PumpData :
          (ToggleStep(pump_data) /\ chip = "open") =>
              pins'[Toggled(pump_data).pin]
                  = (IF Toggled(pump_data).status THEN 0 ELSE 1)]_vars

\* the agreement holds for the acidic pump
C35_AcidicLevelAgrees ==
    [][\A pump_data \in PumpData :
          (ToggleStep(pump_data) /\ chip = "open" /\ pump_data.pump = "acidic") =>
              pins'[Toggled(pump_data).pin]
                  = (IF Toggled(pump_data).status THEN 0 ELSE 1)]_vars

\* a request to close the alkaline pump has left its pin at the on level
C35_CloseOpensAlkaline ==
    [][\A pump_data \in PumpData :
          (/\ ToggleStep(pump_data) /\ chip = "open"
           /\ pump_data.pump = "alkaline" /\ pump_data.isPumping)
              => pins'[Toggled(pump_data).pin] = 1]_vars


Positions(tree, id) ==
    { i \in 1..Len(tree.configurations) : tree.configurations[i].id = id }

UpdatesExisting ==
    /\ handler = "done"
    /\ IsCommand(lastCmd, "configuration", "update")
    /\ "id" \in DOMAIN lastCmd.data
    /\ Positions(prev, lastCmd.data.id) # {}

Refreshed == \E n \in 1..Len(emitted) : emitted[n].event = "refresh_device_data"

\* C33 (under Spec): a configuration|update naming the id of a stored
\* configuration, at whatever position, is answered without error: the tree
\* is persisted and refresh_device_data is emitted.
C33_UpdateAtAnyPosition ==
    UpdatesExisting => (result = "ok" /\ disk = config /\ Refreshed)

\* it does succeed when the configuration named is the last of the list
C33_UpdateOfLast ==
    (UpdatesExisting /\ Positions(prev, lastCmd.data.id) = {Len(prev.configurations)})
        => (result = "ok" /\ disk = config /\ Refreshed)

\* an update of a configuration that is not the last ends in error
C33_UpdateOfEarlier ==
    ~(/\ UpdatesExisting
      /\ \E i \in Positions(prev, lastCmd.data.id) : i < Len(prev.configurations)
      /\ result = "error")


MappedPin(w, pump) ==
    LET entry == InputPinMap[controllers[workers[w].ctl].device_port]
    IN  IF pump = "alkaline" THEN entry.alkaline ELSE entry.acidic

OtherPump(pump) == IF pump = "alkaline" THEN "acidic" ELSE "alkaline"

\* C34 (under SpecCtl): the worker started for a pump writes the pin that
\* the InputPinMap entry of the sensor's port gives for that pump.
C34_PumpDrivesItsPin ==
    \A w \in 1..Len(workers) : workers[w].pump_pin = MappedPin(w, workers[w].pump)

\* the pin written is the one the entry gives for the other pump
C34_PumpDrivesTheOtherPin ==
    \A w \in 1..Len(workers) :
        workers[w].pump_pin = MappedPin(w, OtherPump(workers[w].pump))

\* an alkaline worker has driven the acidic pin of its port on
C34_AlkalineOnAcidicPin ==
    ~(\E w \in 1..Len(workers) :
         /\ workers[w].pump = "alkaline" /\ workers[w].pc = "pumping" /\ workers[w].wrote
         /\ pins[MappedPin(w, "acidic")] = 0
         /\ pins[MappedPin(w, "alkaline")] = 1)


\* C36 (under SpecExp): while a worker drives its pump's pin on, the
\* is_pumping flag of that pump of its controller is true.
C36_FlagWhileDriving ==
    \A w \in 1..Len(workers) :
        (workers[w].pc = "pumping" /\ workers[w].wrote)
            => flags[workers[w].ctl][FlagOf(workers[w])]

\* a second worker of the same controller and pump drives the pin on after
\* the first one has ended and cleared the flag
C36_SecondWorkerUnflagged ==
    ~(\E w1, w2 \in 1..Len(workers) :
         /\ w1 # w2
         /\ workers[w1].ctl = workers[w2].ctl
         /\ workers[w1].pump = workers[w2].pump
         /\ workers[w1].pc = "done"
         /\ workers[w2].pc = "pumping" /\ workers[w2].wrote
         /\ phase = "running"
         /\ ~flags[workers[w2].ctl][FlagOf(workers[w2])])


InSnapshot(j, point) ==
    \E s \in snapshots' :
        /\ j <= Len(s.locations)
        /\ \E m \in 1..Len(s.locations[j].data) : s.locations[j].data[m] = point

\* C37 (under SpecSnap): a step that empties the buffers removes no point
\* that is missing from the snapshots written: every point of a buffer before
\* the clear is in a snapshot.
C37_ClearedPointsAreSaved ==
    [][(~Cleared(experiment_data) /\ Cleared(experiment_data'))
          => \A j \in 1..Len(experiment_data.locations) :
                \A n \in 1..Len(experiment_data.locations[j].data) :
                    InSnapshot(j, experiment_data.locations[j].data[n])]_vars

\* the clear that follows a snapshot without a sample in between loses nothing
C37_UndisturbedClearKeepsAll ==
    [][(/\ ~Cleared(experiment_data) /\ Cleared(experiment_data')
        /\ experiment_data \in snapshots)
          => \A j \in 1..Len(experiment_data.locations) :
                \A n \in 1..Len(experiment_data.locations[j].data) :
                    InSnapshot(j, experiment_data.locations[j].data[n])]_vars

\* the buffers were cleared while they held more than the snapshot
C37_ClearedMoreThanSaved ==
    [][(timer.saving /\ ~timer'.saving) => experiment_data \in snapshots]_vars


StartFailed == StartProcessed /\ command'.result = "error"

\* C38 (under SpecExp): a startExperiment answered with an error leaves the
\* controllers of the scheduler and the configurationID of the experiment
\* data as they were, and starts no loop and no timer.
C38_FailedStartLeavesNothing ==
    [][StartFailed =>
          /\ controllers' = controllers
          /\ experiment_data'.configurationID = experiment_data.configurationID
          /\ loop' = loop
          /\ timer' = timer
          /\ is_running' = is_running]_vars

\* what a failed start never does: start a loop or the timer
C38_FailedStartStartsNothing ==
    [][StartFailed => (loop' = loop /\ timer' = timer /\ is_running' = is_running)]_vars

\* a start that found no unique configuration changes nothing at all
C38_UnknownConfigurationLeavesNothing ==
    [][(StartFailed /\ Matches(command'.data.configurationID) # 1)
          => (controllers' = controllers /\ experiment_data' = experiment_data)]_vars

\* a failed start has changed the configurationID
C38_FailedStartKeepsConfiguration ==
    [][StartFailed
          => experiment_data'.configurationID = experiment_data.configurationID]_vars


----------------------------------------------------------------------------
(* C39: what update and delete commands leave alone *)

\* the field k of the command's data, "" when the data has no such field
Field(cmd, k) == IF k \in DOMAIN cmd.data THEN cmd.data[k] ELSE ""

ConfigurationsNamed(tree, c) ==
    {i \in 1..Len(tree.configurations) : tree.configurations[i].id = c}

LocationsNamed(tree, c, l) ==
    { p \in (1..Len(tree.configurations)) \X (1..(MaxLocations + 1)) :
        /\ tree.configurations[p[1]].id = c
        /\ p[2] <= Len(tree.configurations[p[1]].locations)
        /\ tree.configurations[p[1]].locations[p[2]].id = l }

\* the records of lst that do not have the id, in their order
Others(lst, id) == SelectSeq(lst, LAMBDA x : x.id # id)

\* the record without its list of children
Own(rec, children) == [k \in DOMAIN rec \ {children} |-> rec[k]]

\* the command names a record that the tree before it does not have
NamesNothing ==
    \/ /\ IsCommand(lastCmd, "configuration", "update")
       /\ ConfigurationsNamed(prev, Field(lastCmd, "id")) = {}
    \/ /\ IsCommand(lastCmd, "configuration", "delete")
       /\ ConfigurationsNamed(prev, Field(lastCmd, "configurationID")) = {}
    \/ /\ IsCommand(lastCmd, "location", "update") \/ IsCommand(lastCmd, "location", "delete")
       /\ LocationsNamed(prev, Field(lastCmd, "configurationID"),
                         Field(lastCmd, "locationID")) = {}
    \/ /\ IsCommand(lastCmd, "sensor", "update") \/ IsCommand(lastCmd, "sensor", "delete")
       /\ Named(prev, Field(lastCmd, "configurationID"), Field(lastCmd, "locationID"),
                Field(lastCmd, "sensorID")) = {}

\* lst is before without some of its records of that id
OnlyRemoved(lst, before, id) == Others(lst, id) = Others(before, id)

SensorsOnlyRemoved(loc, before, l, s) ==
    /\ Own(loc, "sensors") = Own(before, "sensors")
    /\ IF before.id = l THEN OnlyRemoved(loc.sensors, before.sensors, s)
       ELSE loc.sensors = before.sensors

LocationsOnlyRemoved(conf, before, c, l) ==
    /\ Own(conf, "locations") = Own(before, "locations")
    /\ IF before.id = c THEN OnlyRemoved(conf.locations, before.locations, l)
       ELSE conf.locations = before.locations

\* every record but the targeted one, and every field of the device record,
\* is as before the delete
DeleteRemovesOnlyTarget ==
    /\ Own(config, "configurations") = Own(prev, "configurations")
    /\ IsCommand(lastCmd, "configuration", "delete") =>
           OnlyRemoved(config.configurations, prev.configurations,
                       Field(lastCmd, "configurationID"))
    /\ IsCommand(lastCmd, "location", "delete") =>
           /\ Len(config.configurations) = Len(prev.configurations)
           /\ \A i \in 1..Len(prev.configurations) :
                  LocationsOnlyRemoved(config.configurations[i], prev.configurations[i],
                                       Field(lastCmd, "configurationID"),
                                       Field(lastCmd, "locationID"))
    /\ IsCommand(lastCmd, "sensor", "delete") =>
           /\ Len(config.configurations) = Len(prev.configurations)
           /\ \A i \in 1..Len(prev.configurations) :
                  LET conf == config.configurations[i]
                      before == prev.configurations[i]
                  IN  /\ Own(conf, "locations") = Own(before, "locations")
                      /\ Len(conf.locations) = Len(before.locations)
                      /\ \A j \in 1..Len(before.locations) :
                             IF before.id = Field(lastCmd, "configurationID")
                             THEN SensorsOnlyRemoved(conf.locations[j], before.locations[j],
                                                     Field(lastCmd, "locationID"),
                                                     Field(lastCmd, "sensorID"))
                             ELSE conf.locations[j] = before.locations[j]

IsDelete ==
    \E context \in {"configuration", "location", "sensor"} :
        IsCommand(lastCmd, context, "delete")

\* C39: an update or delete command whose configurationID, locationID or
\* sensorID matches nothing leaves the configuration tree unchanged, and a
\* delete that matches removes only the targeted record: every other
\* configuration, location and sensor, and every field of the device record,
\* is the same as before.
C39_FrameOfUpdateAndDelete ==
    handler = "done" =>
        /\ NamesNothing => config = prev
        /\ IsDelete => DeleteRemovesOnlyTarget

\* a delete has removed one of several configurations
C39_DeletedOneOfSeveral ==
    /\ handler = "done"
    /\ IsCommand(lastCmd, "configuration", "delete")
    /\ Len(prev.configurations) >= 2
    /\ Len(config.configurations) = Len(prev.configurations) - 1

\* a sensor|update that names no sensor of the tree has returned without an error
C39_UpdatedNothing ==
    /\ handler = "done"
    /\ IsCommand(lastCmd, "sensor", "update")
    /\ NamesNothing
    /\ result = "ok"

\* a location|delete has removed the location of a configuration beside another
C39_DeletedLocation ==
    /\ handler = "done"
    /\ IsCommand(lastCmd, "location", "delete")
    /\ ~NamesNothing
    /\ Len(prev.configurations) >= 2
    /\ config # prev


----------------------------------------------------------------------------
(* app.py: parseCommands looks the command up by name and calls the         *)
(* handler, whatever the commands before it were; the sender here sends     *)
(* the four lifecycle commands in any order                                 *)

InitAnyOrder ==
    /\ focus = "anyorder"
    /\ device_handler = TwoConfigurationsTree
    /\ config = device_handler
    /\ disk = config
    /\ connected = TRUE
    /\ handler = "idle"
    /\ prev = config
    /\ lastCmd = NoCmd
    /\ result = "none"
    /\ emitted = <<>>
    /\ CtlIdle
    /\ probe \in Probes(focus)
    /\ ExpIdle

parseCommands(command_data) ==
    CASE command_data.cmd = "startExperiment" -> start_experiment(command_data)
      [] command_data.cmd = "pauseExperiment" -> pause_experiment(command_data)
      [] command_data.cmd = "resumeExperiment" -> resume_experiment(command_data)
      [] command_data.cmd = "stopExperiment" -> stop_experiment(command_data)

StartAnyOrder ==
    (\E cmd \in StartCommands(focus) : parseCommands(cmd)) /\ CommandFrame
PauseAnyOrder == parseCommands(LifecycleCommand("pauseExperiment")) /\ CommandFrame
ResumeAnyOrder == parseCommands(LifecycleCommand("resumeExperiment")) /\ CommandFrame
StopAnyOrder == parseCommands(LifecycleCommand("stopExperiment")) /\ CommandFrame

NextAnyOrder ==
    \/ StartAnyOrder \/ PauseAnyOrder \/ ResumeAnyOrder \/ StopAnyOrder
    \/ Loop \/ Timer

SpecAnyOrder == InitAnyOrder /\ [][NextAnyOrder]_vars


\* the readings of this profile call for no pump: no actuation worker exists
AnyOrder_NoWorkers == workers = <<>>

\* the step processes the named lifecycle command
Processes(name) == command' # command /\ command'.cmd = name

\* no experiment has been started: nothing runs and nothing has been recorded
Ready ==
    /\ phase = "ready"
    /\ ~timer.running
    /\ timer.alive = 0
    /\ LiveLoops = {}
    /\ experiment_data.duration = 0

StartsNothing ==
    /\ timer' = timer
    /\ loop' = loop
    /\ is_running' = is_running
    /\ experiment_data'.duration = 0

\* C40: lifecycle commands received outside their source state start
\* nothing: a resumeExperiment or pauseExperiment received while no
\* experiment has been started (state Ready) leaves duration at 0 with no
\* timer and no tick loop running, and a startExperiment received while an
\* experiment is Running does not register a second set of actuators or
\* start a second duration timer.
C40_OutOfStateStartsNothing ==
    [][/\ Ready /\ (Processes("resumeExperiment") \/ Processes("pauseExperiment"))
           => StartsNothing
       /\ phase = "running" /\ Processes("startExperiment")
           => controllers' = controllers /\ timer'.alive = timer.alive]_vars

\* the part that the code keeps: a pauseExperiment in Ready starts nothing
C40_PauseInReadyStartsNothing ==
    [][Ready /\ Processes("pauseExperiment") => StartsNothing]_vars

\* a resumeExperiment in Ready starts nothing
C40_ResumeInReadyStartsNothing ==
    [][Ready /\ Processes("resumeExperiment") => StartsNothing]_vars

\* a startExperiment while Running that is answered without an error
\* registers no actuator and starts no timer
C40_SecondStartRegistersNothing ==
    [][phase = "running" /\ Processes("startExperiment") /\ command'.result = "ok"
           => controllers' = controllers /\ timer'.alive = timer.alive]_vars

\* no state has a duration timer and a tick loop running with no actuator
\* registered and no configuration chosen; violated
C40_NoTimerWithoutActuators ==
    ~(timer.running /\ timer.alive > 0 /\ LiveLoops # {} /\ controllers = <<>>
      /\ experiment_data.configurationID = InitialExperimentData.configurationID)

\* no state has two duration timers and two sets of actuators; violated
C40_NeverTwoTimers ==
    ~(timer.alive >= 2 /\ Len(controllers) > Len(TwoConfigurationsTree.configurations[2].locations))

=============================================================================
